---- MODULE Spec2Model ----
(***************************************************************************)
(* TravelProof backend: the fact extractor and risk scorer of              *)
(* backend/risk.py, the authorize / challenge-verify handlers of           *)
(* backend/main.py and the tables of backend/db.py.                        *)
(*                                                                         *)
(* Text is a sequence of tokens (a token is a word, a blank " " or a       *)
(* punctuation chunk); str.strip, str.lower, str.upper and the substring   *)
(* test are computed on that sequence.  Python None is NoneStr for text    *)
(* and NoneNum for numbers.  Floats are integers: the score is kept in     *)
(* fifths so that (trust_score - 50) * 0.4 is exact.                       *)
(***************************************************************************)
EXTENDS Integers, Sequences, FiniteSets, TLC

VARIABLES
    purchase,           \* Purchase of the scoring call at hand
    personalization,    \* Personalization of the scoring call at hand
    trust_score,        \* trust_score argument of the scoring call at hand
    result,             \* RiskResult returned by the call (NoResult before)
    sessions,           \* table sessions: set of session_id
    cards,              \* table cards: set of [id, session_id, created_at]
    payment_attempts,   \* table payment_attempts: sequence of rows, by id
    challenges,         \* table challenges: challenge_id -> row
    memories,           \* Backboard fact store: session_id -> sequence of records
    backboard,          \* how Backboard answered the calls of the last request
    request,            \* the last request received
    response,           \* HTTP response to the last request
    clock,              \* db._now_iso(): the time of the last write; a request
                        \* that writes takes a later time than every write before,
                        \* and the rows one request writes carry that one time
    runs                \* authorize calls followed statement by statement:
                        \* run -> its position and local variables

vars == <<purchase, personalization, trust_score, result, sessions, cards,
          payment_attempts, challenges, memories, backboard, request, response,
          clock, runs>>

scoreVars == <<purchase, personalization, trust_score, result>>
dbVars == <<sessions, cards, payment_attempts, challenges, memories, backboard,
            request, response, clock, runs>>

(***************************************************************************)
(* Text                                                                    *)
(***************************************************************************)
NoneStr == <<"<None>">>
NoneNum == -1
EmptyStr == <<>>
Blank == " "

\* <<lower form, upper form, other spellings>> of every cased token in use
CaseForms ==
    { <<"ikea", "IKEA", {"Ikea"}>>,
      <<"ica", "ICA", {}>>,
      <<"sj", "SJ", {}>>,
      <<"systembolaget", "SYSTEMBOLAGET", {"Systembolaget"}>>,
      <<"unknown", "UNKNOWN", {"Unknown"}>>,
      <<"shop", "SHOP", {"Shop"}>>,
      <<"se", "SE", {}>>,
      <<"fr", "FR", {}>>,
      <<"cnp", "CNP", {}>>,
      <<"card_present", "CARD_PRESENT", {}>>,
      <<"steam", "STEAM", {"Steam"}>>,
      <<"gift", "GIFT", {"Gift"}>>,
      <<"card", "CARD", {"Card"}>>,
      <<"giftcard", "GIFTCARD", {}>>,
      <<"voucher", "VOUCHER", {"Voucher"}>>,
      <<"apple", "APPLE", {}>>,
      <<"google", "GOOGLE", {}>>,
      <<"play", "PLAY", {}>>,
      <<"sofa", "SOFA", {"Sofa"}>>,
      <<"grocery", "GROCERY", {}>>,
      <<"transit", "TRANSIT", {}>>,
      <<"apparel", "APPAREL", {}>>,
      <<"furniture", "FURNITURE", {"Furniture"}>>,
      <<"alcohol", "ALCOHOL", {}>>,
      <<"approve", "APPROVE", {"Approve"}>>,
      <<"deny", "DENY", {"Deny"}>>,
      <<"maybe", "MAYBE", {}>>,
      <<"h&m", "H&M", {}>>,
      <<"passkey", "PASSKEY", {}>>,
      <<"tp_profile", "TP_PROFILE", {}>>,
      <<"tp_baseline", "TP_BASELINE", {}>>,
      <<"tp_trusted_merchant", "TP_TRUSTED_MERCHANT", {}>>,
      <<"_high", "_HIGH", {}>>,
      <<"_med", "_MED", {}>>,
      <<"_low", "_LOW", {}>>,
      <<"tp_merchant_facts", "TP_MERCHANT_FACTS", {}>>,
      <<"return tp_profile / tp_baseline / tp_trusted_merchant_* / tp_merchant_facts for authorization.",
        "RETURN TP_PROFILE / TP_BASELINE / TP_TRUSTED_MERCHANT_* / TP_MERCHANT_FACTS FOR AUTHORIZATION.",
        {"Return TP_PROFILE / TP_BASELINE / TP_TRUSTED_MERCHANT_* / TP_MERCHANT_FACTS for authorization."}>> }

FormsOf(w) == {w[1], w[2]} \cup w[3]

CasedTokens == UNION { FormsOf(w) : w \in CaseForms }

LowerMap == [t \in CasedTokens |-> (CHOOSE w \in CaseForms : t \in FormsOf(w))[1]]

UpperMap == [t \in CasedTokens |-> (CHOOSE w \in CaseForms : t \in FormsOf(w))[2]]

LowerTok(t) == IF t \in CasedTokens THEN LowerMap[t] ELSE t

UpperTok(t) == IF t \in CasedTokens THEN UpperMap[t] ELSE t

\* str.lower()
lower(s) == [i \in 1..Len(s) |-> LowerTok(s[i])]

\* str.upper()
upper(s) == [i \in 1..Len(s) |-> UpperTok(s[i])]

\* str.strip(): drop leading and trailing blanks
strip(s) ==
    IF \A i \in 1..Len(s) : s[i] = Blank
    THEN EmptyStr
    ELSE LET first == CHOOSE i \in 1..Len(s) :
                          s[i] # Blank /\ \A j \in 1..(i-1) : s[j] = Blank
             last  == CHOOSE i \in 1..Len(s) :
                          s[i] # Blank /\ \A j \in (i+1)..Len(s) : s[j] = Blank
         IN  SubSeq(s, first, last)

\* k in s  (substring test)
contains(s, k) ==
    \E i \in 0..(Len(s) - Len(k)) : SubSeq(s, i + 1, i + Len(k)) = k

\* s.startswith(prefix)
startswith(s, prefix) ==
    Len(s) >= Len(prefix) /\ SubSeq(s, 1, Len(prefix)) = prefix

\* s[n:]
drop(s, n) == SubSeq(s, n + 1, Len(s))

\* x or ""   for an Optional[str]
or_empty(x) == IF x = NoneStr THEN EmptyStr ELSE x

\* membership of x in a list
in_list(x, lst) == \E i \in 1..Len(lst) : lst[i] = x

(***************************************************************************)
(* JSON values as json.loads returns them, and Python truthiness           *)
(***************************************************************************)
JNull == [t |-> "null", s |-> EmptyStr, b |-> FALSE, n |-> 0, l |-> <<>>]
JStr(x) == [t |-> "str", s |-> x, b |-> FALSE, n |-> 0, l |-> <<>>]
JBool(x) == [t |-> "bool", s |-> EmptyStr, b |-> x, n |-> 0, l |-> <<>>]
JNum(x) == [t |-> "num", s |-> EmptyStr, b |-> FALSE, n |-> x, l |-> <<>>]
JList(x) == [t |-> "list", s |-> EmptyStr, b |-> FALSE, n |-> 0, l |-> x]

truthy(j) ==
    CASE j.t = "str"  -> j.s # EmptyStr
      [] j.t = "bool" -> j.b
      [] j.t = "num"  -> j.n # 0
      [] j.t = "list" -> j.l # <<>>
      [] OTHER        -> FALSE

\* a JSON object is a function from its keys to values; dict.get(key) is
\* None (JNull) for a key the object does not have
dict_get(obj, key) == IF key \in DOMAIN obj THEN obj[key] ELSE JNull

\* personalization.merchant_facts.get(merchant_norm, {})
facts_get(merchant_facts, merchant_norm) ==
    IF merchant_norm \in DOMAIN merchant_facts
    THEN merchant_facts[merchant_norm]
    ELSE <<>>

(***************************************************************************)
(* risk.py: Personalization, Purchase                                      *)
(***************************************************************************)
\* the fields the scorer reads are parameters; the others are unknown
Personalization(cc, trips, tmax, high, med, low, mfacts) ==
    [ current_country        |-> cc,
      trip_countries         |-> trips,
      sms_available          |-> "None",
      preferred_verification |-> NoneStr,
      daily_budget           |-> NoneNum,
      typical_amount_min     |-> NoneNum,
      typical_amount_max     |-> tmax,
      trusted_high           |-> high,
      trusted_med            |-> med,
      trusted_low            |-> low,
      merchant_facts         |-> mfacts ]

\* Personalization(): every field unknown
EmptyPersonalization ==
    Personalization(NoneStr, <<>>, NoneNum, {}, {}, {}, <<>>)

Purchase(merchant, amount, country, dcc, channel, item, shipping) ==
    [ merchant         |-> merchant,
      amount           |-> amount,
      country          |-> country,
      dcc_offered      |-> dcc,
      channel          |-> channel,
      item_description |-> item,
      shipping_country |-> shipping ]

_norm_merchant_keep_case(name) == strip(or_empty(name))

_norm_merchant(name) == lower(strip(or_empty(name)))

(***************************************************************************)
(* risk.py: the fact extractor                                             *)
(***************************************************************************)
\* the JSON documents in use, by the token that stands for their text, as
\* json.loads decodes them; any other payload is malformed or not an object
JsonDicts ==
    ("{profile-se}" :>
        [ current_country        |-> JStr(<<"SE">>),
          trip_countries         |-> JList(<< JStr(<<"SE">>) >>),
          sms_available          |-> JBool(FALSE),
          preferred_verification |-> JStr(<<"PASSKEY">>),
          daily_budget           |-> JNum(900) ])
    @@ ("{baseline-se}" :>
        [ typical_amount_min |-> JNum(50), typical_amount_max |-> JNum(600) ])
    @@ ("{facts-ica}" :>
        [ merchant |-> JStr(<<"ICA">>), category |-> JStr(<<"GROCERY">>),
          home_country |-> JStr(<<"SE">>), restricted |-> JBool(FALSE),
          source_url |-> JStr(<<"https://www.icagruppen.se/">>) ])
    @@ ("{facts-systembolaget}" :>
        [ merchant |-> JStr(<<"Systembolaget">>), category |-> JStr(<<"ALCOHOL">>),
          home_country |-> JStr(<<"SE">>), restricted |-> JBool(TRUE),
          source_url |-> JStr(<<"https://www.omsystembolaget.se/">>) ])
    @@ ("{facts-sj}" :>
        [ merchant |-> JStr(<<"SJ">>), category |-> JStr(<<"TRANSIT">>),
          home_country |-> JStr(<<"SE">>), restricted |-> JBool(FALSE),
          source_url |-> JStr(<<"https://www.sj.se/">>) ])
    @@ ("{facts-h&m}" :>
        [ merchant |-> JStr(<<"H&M">>), category |-> JStr(<<"APPAREL">>),
          home_country |-> JStr(<<"SE">>), restricted |-> JBool(FALSE),
          source_url |-> JStr(<<"https://hmgroup.com/">>) ])
    @@ ("{facts-ikea}" :>
        [ merchant |-> JStr(<<"IKEA">>), category |-> JStr(<<"FURNITURE">>),
          home_country |-> JStr(<<"SE">>), restricted |-> JBool(FALSE),
          source_url |-> JStr(<<"https://www.ikea.com/">>) ])
    @@ ("{facts-ikea-spaced}" :>
        [ merchant |-> JStr(<<" ", "Ikea", " ">>), category |-> JStr(<<"ALCOHOL">>),
          restricted |-> JBool(TRUE) ])
    @@ ("{facts-ikea-numeric}" :>
        [ merchant |-> JStr(<<"IKEA">>), category |-> JNum(7),
          restricted |-> JStr(<<"no">>) ])

\* None and the empty object are both <<>>: every caller only tests "if obj"
_safe_json_loads(payload) ==
    IF Len(payload) = 1 /\ payload[1] \in DOMAIN JsonDicts
    THEN JsonDicts[payload[1]]
    ELSE <<>>

\* str(x)
py_str(j) ==
    CASE j.t = "str"  -> j.s
      [] j.t = "num"  -> << ToString(j.n) >>
      [] j.t = "bool" -> IF j.b THEN <<"True">> ELSE <<"False">>
      [] j.t = "null" -> <<"None">>
      [] OTHER        -> <<"[...]">>

\* the numerals in use
NumberTokens == ("600" :> 600) @@ ("900" :> 900) @@ ("50" :> 50)

\* float(x): ok is FALSE where float raises
py_float(j) ==
    CASE j.t = "num"  -> [ok |-> TRUE, v |-> j.n]
      [] j.t = "bool" -> [ok |-> TRUE, v |-> IF j.b THEN 1 ELSE 0]
      [] j.t = "str"  ->
            IF Len(strip(j.s)) = 1 /\ strip(j.s)[1] \in DOMAIN NumberTokens
            THEN [ok |-> TRUE, v |-> NumberTokens[strip(j.s)[1]]]
            ELSE [ok |-> FALSE, v |-> 0]
      [] OTHER        -> [ok |-> FALSE, v |-> 0]

\* try: p.field = float(obj[key])  except: pass
float_or_keep(old, j) ==
    IF j.t # "null" /\ py_float(j).ok THEN py_float(j).v ELSE old

upper_strip_str(j) == strip(upper(py_str(j)))

nonblank_item(j) == strip(py_str(j)) # EmptyStr

apply_profile(p, obj) ==
    IF obj = <<>> THEN p
    ELSE [ p EXCEPT
           !.current_country =
               IF truthy(dict_get(obj, "current_country"))
               THEN upper_strip_str(dict_get(obj, "current_country")) ELSE @,
           !.trip_countries =
               IF dict_get(obj, "trip_countries").t = "list"
               THEN LET kept == SelectSeq(dict_get(obj, "trip_countries").l, nonblank_item)
                    IN  [i \in 1..Len(kept) |-> upper_strip_str(kept[i])]
               ELSE @,
           !.sms_available =
               IF dict_get(obj, "sms_available").t # "null"
               THEN (IF truthy(dict_get(obj, "sms_available")) THEN "True" ELSE "False")
               ELSE @,
           !.preferred_verification =
               IF truthy(dict_get(obj, "preferred_verification"))
               THEN upper_strip_str(dict_get(obj, "preferred_verification")) ELSE @,
           !.daily_budget = float_or_keep(@, dict_get(obj, "daily_budget")) ]

apply_baseline(p, obj) ==
    IF obj = <<>> THEN p
    ELSE [ p EXCEPT
           !.typical_amount_min = float_or_keep(@, dict_get(obj, "typical_amount_min")),
           !.typical_amount_max = float_or_keep(@, dict_get(obj, "typical_amount_max")) ]

apply_merchant_facts_merging(p, obj) ==
    IF obj # <<>> /\ truthy(dict_get(obj, "merchant"))
    THEN LET key == _norm_merchant(py_str(dict_get(obj, "merchant")))
             old == facts_get(p.merchant_facts, key)
             merged == [ f \in (DOMAIN old) \cup (DOMAIN obj) |->
                           IF f \in DOMAIN obj THEN obj[f] ELSE old[f] ]
         IN  [ p EXCEPT !.merchant_facts =
                 [ k \in (DOMAIN @) \cup {key} |-> IF k = key THEN merged ELSE @[k] ] ]
    ELSE p

apply_merchant_facts_unchecked(p, obj) ==
    LET key == _norm_merchant(py_str(dict_get(obj, "merchant")))
    IN  [ p EXCEPT !.merchant_facts =
            [ k \in (DOMAIN @) \cup {key} |-> IF k = key THEN obj ELSE @[k] ] ]

apply_merchant_facts(p, obj) ==
    IF obj # <<>> /\ truthy(dict_get(obj, "merchant"))
    THEN LET key == _norm_merchant(py_str(dict_get(obj, "merchant")))
         IN  [ p EXCEPT !.merchant_facts =
                 [ k \in (DOMAIN @) \cup {key} |-> IF k = key THEN obj ELSE @[k] ] ]
    ELSE p

TagProfile == <<"TP_PROFILE">>
TagBaseline == <<"TP_BASELINE">>
TagTrustedHigh == <<"TP_TRUSTED_MERCHANT", "_HIGH">>
TagTrustedMed == <<"TP_TRUSTED_MERCHANT", "_MED">>
TagTrustedLow == <<"TP_TRUSTED_MERCHANT", "_LOW">>
TagTrusted == <<"TP_TRUSTED_MERCHANT">>
TagMerchantFacts == <<"TP_MERCHANT_FACTS">>

\* mem[len(tag):].strip()
after_tag(mem, tag) == strip(drop(mem, Len(tag)))

extract_record_legacy_first(p, m) ==
    LET mem == strip(or_empty(m))
    IN  IF mem = EmptyStr THEN p
        ELSE IF startswith(mem, TagProfile)
        THEN apply_profile(p, _safe_json_loads(after_tag(mem, TagProfile)))
        ELSE IF startswith(mem, TagBaseline)
        THEN apply_baseline(p, _safe_json_loads(after_tag(mem, TagBaseline)))
        ELSE IF startswith(mem, TagTrusted)
        THEN IF after_tag(mem, TagTrusted) # EmptyStr
             THEN [ p EXCEPT !.trusted_high =
                      @ \cup { _norm_merchant(after_tag(mem, TagTrusted)) } ]
             ELSE p
        ELSE IF startswith(mem, TagTrustedHigh)
        THEN IF after_tag(mem, TagTrustedHigh) # EmptyStr
             THEN [ p EXCEPT !.trusted_high =
                      @ \cup { _norm_merchant(after_tag(mem, TagTrustedHigh)) } ]
             ELSE p
        ELSE IF startswith(mem, TagTrustedMed)
        THEN IF after_tag(mem, TagTrustedMed) # EmptyStr
             THEN [ p EXCEPT !.trusted_med =
                      @ \cup { _norm_merchant(after_tag(mem, TagTrustedMed)) } ]
             ELSE p
        ELSE IF startswith(mem, TagTrustedLow)
        THEN IF after_tag(mem, TagTrustedLow) # EmptyStr
             THEN [ p EXCEPT !.trusted_low =
                      @ \cup { _norm_merchant(after_tag(mem, TagTrustedLow)) } ]
             ELSE p
        ELSE IF startswith(mem, TagMerchantFacts)
        THEN apply_merchant_facts(p, _safe_json_loads(after_tag(mem, TagMerchantFacts)))
        ELSE p

\* one pass of the loop body on the record m (its "memory" text)
extract_record(p, m) ==
    LET mem == strip(or_empty(m))
    IN  IF mem = EmptyStr THEN p
        ELSE IF startswith(mem, TagProfile)
        THEN apply_profile(p, _safe_json_loads(after_tag(mem, TagProfile)))
        ELSE IF startswith(mem, TagBaseline)
        THEN apply_baseline(p, _safe_json_loads(after_tag(mem, TagBaseline)))
        ELSE IF startswith(mem, TagTrustedHigh)
        THEN IF after_tag(mem, TagTrustedHigh) # EmptyStr
             THEN [ p EXCEPT !.trusted_high =
                      @ \cup { _norm_merchant(after_tag(mem, TagTrustedHigh)) } ]
             ELSE p
        ELSE IF startswith(mem, TagTrustedMed)
        THEN IF after_tag(mem, TagTrustedMed) # EmptyStr
             THEN [ p EXCEPT !.trusted_med =
                      @ \cup { _norm_merchant(after_tag(mem, TagTrustedMed)) } ]
             ELSE p
        ELSE IF startswith(mem, TagTrustedLow)
        THEN IF after_tag(mem, TagTrustedLow) # EmptyStr
             THEN [ p EXCEPT !.trusted_low =
                      @ \cup { _norm_merchant(after_tag(mem, TagTrustedLow)) } ]
             ELSE p
        ELSE IF startswith(mem, TagTrusted)
        THEN IF after_tag(mem, TagTrusted) # EmptyStr
             THEN [ p EXCEPT !.trusted_high =
                      @ \cup { _norm_merchant(after_tag(mem, TagTrusted)) } ]
             ELSE p
        ELSE IF startswith(mem, TagMerchantFacts)
        THEN apply_merchant_facts(p, _safe_json_loads(after_tag(mem, TagMerchantFacts)))
        ELSE p

RECURSIVE extract_from(_, _)
extract_from(p, records) ==
    IF records = <<>> THEN p
    ELSE extract_from(extract_record(p, Head(records)), Tail(records))

extract_personalization(retrieved_memories) ==
    extract_from(EmptyPersonalization, retrieved_memories)

(***************************************************************************)
(* risk.py: the scorer                                                     *)
(***************************************************************************)
_clamp_int_unbounded(x5, lo, hi) ==
    LET r == (2 * x5 + 5) \div 10
    IN  IF r > hi THEN hi ELSE r

\* int(max(lo, min(hi, round(x)))) for x = x5 / 5; x5 is never a half
_clamp_int(x5, lo, hi) ==
    LET r == (2 * x5 + 5) \div 10
        m == IF r < hi THEN r ELSE hi
    IN  IF lo > m THEN lo ELSE m

_risk_level(score) ==
    IF score >= 60 THEN "HIGH"
    ELSE IF score >= 30 THEN "MEDIUM"
    ELSE "LOW"

_merchant_tier_low_first(merchant_norm, p) ==
    IF merchant_norm \in p.trusted_low THEN "LOW"
    ELSE IF merchant_norm \in p.trusted_med THEN "MEDIUM"
    ELSE IF merchant_norm \in p.trusted_high THEN "HIGH"
    ELSE "LOW"

_merchant_tier_default_medium(merchant_norm, p) ==
    IF merchant_norm \in p.trusted_high THEN "HIGH"
    ELSE IF merchant_norm \in p.trusted_med THEN "MEDIUM"
    ELSE IF merchant_norm \in p.trusted_low THEN "LOW"
    ELSE "MEDIUM"

_merchant_tier(merchant_norm, p) ==
    IF merchant_norm \in p.trusted_high THEN "HIGH"
    ELSE IF merchant_norm \in p.trusted_med THEN "MEDIUM"
    ELSE IF merchant_norm \in p.trusted_low THEN "LOW"
    ELSE "LOW"

GiftCardKeywords ==
    { <<"gift", " ", "card">>, <<"giftcard">>, <<"voucher">>,
      <<"steam", " ", "card">>, <<"apple", " ", "gift">>,
      <<"google", " ", "play">> }

_looks_like_gift_card_case_sensitive(item_desc) ==
    IF item_desc = NoneStr \/ item_desc = EmptyStr
    THEN FALSE
    ELSE \E k \in GiftCardKeywords : contains(item_desc, k)

_looks_like_gift_card(item_desc) ==
    IF item_desc = NoneStr \/ item_desc = EmptyStr
    THEN FALSE
    ELSE \E k \in GiftCardKeywords : contains(lower(item_desc), k)

\* (facts.get("category") or "").strip().upper() raises AttributeError when
\* the value is truthy and not a str
category_raises(facts) ==
    truthy(dict_get(facts, "category")) /\ dict_get(facts, "category").t # "str"

category_of(facts) ==
    IF truthy(dict_get(facts, "category")) /\ dict_get(facts, "category").t = "str"
    THEN upper(strip(dict_get(facts, "category").s))
    ELSE EmptyStr

\* bool(facts.get("restricted"))
restricted_of(facts) == truthy(dict_get(facts, "restricted"))

\* one fired rule: its contribution to the score and its reason
Fired(delta, reason) == << [delta |-> delta, reason |-> reason] >>
NotFired == <<>>

rule_channel(purchase_, p) ==
    LET channel == upper(strip(IF or_empty(purchase_.channel) = EmptyStr
                               THEN <<"CNP">> ELSE purchase_.channel))
    IN  IF channel = <<"CNP">>
        THEN Fired(12, "Online (card-not-present) purchase")
        ELSE NotFired

purchase_country_of(purchase_) == upper(strip(or_empty(purchase_.country)))

rule_country_mismatch(purchase_, p) ==
    IF /\ or_empty(p.current_country) # EmptyStr
       /\ purchase_country_of(purchase_) # EmptyStr
       /\ purchase_country_of(purchase_) # p.current_country
    THEN Fired(30, "Country mismatch vs travel mode")
    ELSE NotFired

rule_trip_country_never(purchase_, p) == NotFired

rule_trip_country(purchase_, p) ==
    IF /\ p.trip_countries # <<>>
       /\ in_list(purchase_country_of(purchase_), p.trip_countries)
    THEN Fired(-10, "Purchase is in your declared trip country")
    ELSE NotFired

rule_shipping(purchase_, p) ==
    IF /\ or_empty(purchase_.shipping_country) # EmptyStr
       /\ or_empty(p.current_country) # EmptyStr
       /\ upper(strip(purchase_.shipping_country)) # p.current_country
    THEN Fired(12, "Shipping country differs from your current travel country")
    ELSE NotFired

rule_category(category) ==
    CASE category = <<"GROCERY">>   -> Fired(-5, "Grocery purchase (low fraud profile)")
      [] category = <<"TRANSIT">>   -> Fired(-3, "Transit purchase (common while traveling)")
      [] category = <<"APPAREL">>   -> Fired(2, "Retail apparel purchase")
      [] category = <<"FURNITURE">> -> Fired(8, "Large-ticket retail category")
      [] category = <<"ALCOHOL">>   -> Fired(5, "Restricted category purchase")
      [] OTHER                      -> NotFired

rule_gift_card(gift_card_like) ==
    IF gift_card_like
    THEN Fired(40, "Item resembles a gift card / voucher (high scam risk)")
    ELSE NotFired

rule_amount_inclusive(purchase_, p) ==
    IF p.typical_amount_max # NoneNum
    THEN IF purchase_.amount >= 2 * p.typical_amount_max
         THEN Fired(25, "Amount is much higher than your typical spending")
         ELSE IF 5 * purchase_.amount >= 6 * p.typical_amount_max
              THEN Fired(10, "Amount is above your typical range")
              ELSE NotFired
    ELSE NotFired

\* amount > 2.0 * max, elif amount > 1.2 * max
rule_amount(purchase_, p) ==
    IF p.typical_amount_max # NoneNum
    THEN IF purchase_.amount > 2 * p.typical_amount_max
         THEN Fired(25, "Amount is much higher than your typical spending")
         ELSE IF 5 * purchase_.amount > 6 * p.typical_amount_max
              THEN Fired(10, "Amount is above your typical range")
              ELSE NotFired
    ELSE NotFired

rule_dcc(purchase_) ==
    IF purchase_.dcc_offered
    THEN Fired(5, "Merchant offered DCC (extra fee risk)")
    ELSE NotFired

rule_tier_high_neutral(tier) ==
    CASE tier = "HIGH"   -> Fired(0, "High-trust merchant")
      [] tier = "MEDIUM" -> Fired(5, "Medium-trust merchant")
      [] OTHER           -> Fired(15, "Low/unknown merchant")

rule_tier(tier) ==
    CASE tier = "HIGH"   -> Fired(-25, "High-trust merchant")
      [] tier = "MEDIUM" -> Fired(5, "Medium-trust merchant")
      [] OTHER           -> Fired(15, "Low/unknown merchant")

\* the rules that fired, in evaluation order
fired_rules(purchase_, p) ==
    LET merchant_norm == _norm_merchant(purchase_.merchant)
        facts == facts_get(p.merchant_facts, merchant_norm)
    IN  rule_channel(purchase_, p)
        \o rule_country_mismatch(purchase_, p)
        \o rule_trip_country(purchase_, p)
        \o rule_shipping(purchase_, p)
        \o rule_category(category_of(facts))
        \o rule_gift_card(_looks_like_gift_card(purchase_.item_description))
        \o rule_amount(purchase_, p)
        \o rule_dcc(purchase_)
        \o rule_tier(_merchant_tier(merchant_norm, p))

RECURSIVE SumDelta(_)
SumDelta(rs) == IF rs = <<>> THEN 0 ELSE rs[1].delta + SumDelta(Tail(rs))

\* score after "score -= (trust_score - 50) * 0.4", in fifths
raw_score5(purchase_, p, trust) ==
    5 * SumDelta(fired_rules(purchase_, p)) - 2 * (trust - 50)

Decision(decision, challenge_method, user_message) ==
    [ decision |-> decision, challenge_method |-> challenge_method,
      user_message |-> user_message ]

policy_no_high_branch(restricted, gift_card_like, tier) ==
    IF restricted \/ gift_card_like
    THEN Decision("CHALLENGE", "PASSKEY",
             "Quick passkey approval required for this type of purchase while traveling.")
    ELSE IF tier = "MEDIUM"
    THEN Decision("CHALLENGE", "PASSKEY", "Quick passkey check to confirm it's you.")
    ELSE Decision("CHALLENGE", "PASSKEY",
             "Unrecognized merchant - approve with passkey or decline.")

policy_tier_first(restricted, gift_card_like, tier) ==
    IF tier = "HIGH"
    THEN Decision("APPROVE", "NONE", "Trusted merchant - approved with no extra steps.")
    ELSE IF restricted \/ gift_card_like
    THEN Decision("CHALLENGE", "PASSKEY",
             "Quick passkey approval required for this type of purchase while traveling.")
    ELSE IF tier = "MEDIUM"
    THEN Decision("CHALLENGE", "PASSKEY", "Quick passkey check to confirm it's you.")
    ELSE Decision("CHALLENGE", "PASSKEY",
             "Unrecognized merchant - approve with passkey or decline.")

\* the tier / flag policy
policy(restricted, gift_card_like, tier) ==
    IF restricted \/ gift_card_like
    THEN Decision("CHALLENGE", "PASSKEY",
             "Quick passkey approval required for this type of purchase while traveling.")
    ELSE IF tier = "HIGH"
    THEN Decision("APPROVE", "NONE", "Trusted merchant - approved with no extra steps.")
    ELSE IF tier = "MEDIUM"
    THEN Decision("CHALLENGE", "PASSKEY", "Quick passkey check to confirm it's you.")
    ELSE Decision("CHALLENGE", "PASSKEY",
             "Unrecognized merchant - approve with passkey or decline.")

last3(reasons) ==
    SubSeq(reasons, IF Len(reasons) < 3 THEN 1 ELSE Len(reasons) - 2, Len(reasons))

\* reasons[:3]
top3(reasons) == SubSeq(reasons, 1, IF Len(reasons) < 3 THEN Len(reasons) ELSE 3)

NoResult == [ raised |-> FALSE, returned |-> FALSE ]

\* the call ended in an exception instead of a RiskResult
Raised == [ raised |-> TRUE, returned |-> FALSE ]

RiskResult(d, risk_score, tier, top_reasons) ==
    [ raised              |-> FALSE,
      returned            |-> TRUE,
      decision            |-> d.decision,
      challenge_method    |-> d.challenge_method,
      risk_score          |-> risk_score,
      risk_level          |-> _risk_level(risk_score),
      merchant_trust_tier |-> tier,
      reasons             |-> top_reasons,
      explain             |-> [ risk_score |-> risk_score,
                                risk_level |-> _risk_level(risk_score),
                                approved   |-> d.decision = "APPROVE",
                                factors    |-> top_reasons ],
      user_message        |-> d.user_message ]

score_purchase_by_threshold(purchase_, p, trust) ==
    LET merchant_norm == _norm_merchant(purchase_.merchant)
        tier == _merchant_tier(merchant_norm, p)
        rs == fired_rules(purchase_, p)
        risk_score == _clamp_int(raw_score5(purchase_, p, trust), 0, 100)
        d == IF _risk_level(risk_score) = "LOW"
             THEN Decision("APPROVE", "NONE", "Trusted merchant - approved with no extra steps.")
             ELSE Decision("CHALLENGE", "PASSKEY", "Quick passkey check to confirm it's you.")
    IN  RiskResult(d, risk_score, tier,
                   top3([i \in 1..Len(rs) |-> rs[i].reason]))

score_purchase(purchase_, p, trust) ==
    LET merchant_norm == _norm_merchant(purchase_.merchant)
        tier == _merchant_tier(merchant_norm, p)
        facts == facts_get(p.merchant_facts, merchant_norm)
        restricted == restricted_of(facts)
        gift_card_like == _looks_like_gift_card(purchase_.item_description)
        rs == fired_rules(purchase_, p)
        risk_score == _clamp_int(raw_score5(purchase_, p, trust), 0, 100)
    IN  IF category_raises(facts)
        THEN Raised
        ELSE RiskResult(policy(restricted, gift_card_like, tier), risk_score, tier,
                        top3([i \in 1..Len(rs) |-> rs[i].reason]))

(***************************************************************************)
(* Inputs of the scoring calls                                             *)
(***************************************************************************)
MaxTrust == 100
BaselineTrust == 50

IkeaNorm == <<"ikea">>

MerchantNames == { <<" ", "Ikea", " ">>, <<"Unknown", " ", "Shop">> }
\* 720 and 1200 are 1.2 and 2 times the typical_amount_max in use
Amounts == {500, 720, 800, 1200, 1500}
Countries == { <<"SE">>, <<"fr">>, EmptyStr }
Channels == { <<"CNP">>, <<"CARD_PRESENT">> }
Items == { NoneStr, <<"Steam", " ", "Gift", " ", "Card", " ", "$100">>, <<"Sofa">> }
ShippingCountries == { NoneStr, <<"FR">> }

Purchases ==
    { Purchase(m, a, c, d, ch, it, sh) :
        m \in MerchantNames, a \in Amounts, c \in Countries, d \in BOOLEAN,
        ch \in Channels, it \in Items, sh \in ShippingCountries }

\* online purchases without DCC and without a shipping address
PlainPurchases ==
    { Purchase(m, a, c, FALSE, <<"CNP">>, it, NoneStr) :
        m \in MerchantNames, a \in {500, 1500}, c \in Countries,
        it \in { NoneStr, <<"Steam", " ", "Gift", " ", "Card", " ", "$100">> } }

\* merchant_facts of well-typed objects: category a string or absent,
\* restricted a boolean or absent
FactsMaps ==
    { <<>>,
      IkeaNorm :> [category |-> JStr(<<"FURNITURE">>), restricted |-> JBool(FALSE)],
      IkeaNorm :> [category |-> JStr(<<" ", "alcohol">>), restricted |-> JBool(TRUE)],
      IkeaNorm :> [category |-> JNull, restricted |-> JBool(TRUE)],
      IkeaNorm :> [category |-> JStr(<<"GROCERY">>)] }

\* the tier sets a merchant is tagged in; the extractor does not keep them
\* disjoint
TierTaggings ==
    { <<{}, {}, {}>>, <<{IkeaNorm}, {}, {}>>, <<{}, {IkeaNorm}, {}>>,
      <<{}, {}, {IkeaNorm}>>, <<{IkeaNorm}, {IkeaNorm}, {}>> }

Profiles ==
    { Personalization(cc, tr, tm, tg[1], tg[2], tg[3], mf) :
        cc \in { NoneStr, <<"SE">> },
        tr \in { <<>>, << <<"SE">> >>, << <<"SE">>, <<"FR">> >> },
        tm \in { NoneNum, 600 }, tg \in TierTaggings, mf \in FactsMaps }

\* the Sweden travel profile with one tagging and one facts object, and the
\* all-unknown profile
TravelProfiles ==
    { Personalization(<<"SE">>, << <<"SE">> >>, 600, tg[1], tg[2], tg[3], mf) :
        tg \in { <<{}, {}, {}>>, <<{IkeaNorm}, {}, {}>>, <<{}, {IkeaNorm}, {}>> },
        mf \in { <<>>,
                 IkeaNorm :> [category |-> JStr(<<"FURNITURE">>), restricted |-> JBool(FALSE)],
                 IkeaNorm :> [category |-> JStr(<<" ", "alcohol">>), restricted |-> JBool(TRUE)] } }
    \cup { EmptyPersonalization }

(***************************************************************************)
(* db.py: the tables after init_db, before any request                     *)
(***************************************************************************)
\* two sessions: the one a request names and another one; a session_id is a
\* uuid4, drawn here in the order 1, 2
SessionIds == {1, 2}

\* cards.id is AUTOINCREMENT and a session gets at most one card
CardIds == 1..Cardinality(SessionIds)

\* two authorize calls in flight at most
RunIds == {1, 2}

\* no call is being followed
NoRuns == [r \in RunIds |-> [pc |-> "idle"]]

NoRequest == [ op |-> "none" ]
NoResponse == [ op |-> "none", code |-> 0 ]

DbInit ==
    /\ sessions = {}
    /\ cards = {}
    /\ payment_attempts = <<>>
    /\ challenges = <<>>
    /\ memories = [s \in SessionIds |-> <<>>]
    /\ backboard = "unused"
    /\ request = NoRequest
    /\ response = NoResponse
    /\ clock = 0
    /\ runs = NoRuns

(***************************************************************************)
(* Scoring calls: score_purchase applied to drawn inputs                   *)
(***************************************************************************)
ScoreInit ==
    /\ \/ /\ purchase \in PlainPurchases
          /\ personalization \in TravelProfiles
          /\ trust_score \in 0..MaxTrust
       \/ /\ purchase \in Purchases
          /\ personalization \in Profiles
          /\ trust_score = BaselineTrust
    /\ result = NoResult
    /\ DbInit

ScorePurchase ==
    /\ result = NoResult
    /\ result' = score_purchase(purchase, personalization, trust_score)
    /\ UNCHANGED <<purchase, personalization, trust_score>>
    /\ UNCHANGED dbVars

ScoreNext == ScorePurchase

SpecScore == ScoreInit /\ [][ScoreNext]_vars

\* a second call, with any inputs, after a first one
PairProfiles ==
    { Personalization(<<"SE">>, << <<"SE">> >>, 600, tg[1], tg[2], tg[3], mf) :
        tg \in { <<{IkeaNorm}, {}, {}>>, <<{}, {IkeaNorm}, {}>> },
        mf \in { <<>>,
                 IkeaNorm :> [category |-> JStr(<<"FURNITURE">>), restricted |-> JBool(FALSE)],
                 IkeaNorm :> [category |-> JStr(<<" ", "alcohol">>), restricted |-> JBool(TRUE)] } }
    \cup { EmptyPersonalization }

PairTrust == {0, MaxTrust}

PairInit ==
    /\ purchase \in PlainPurchases
    /\ personalization \in PairProfiles
    /\ trust_score \in PairTrust
    /\ result = NoResult
    /\ DbInit

Rescore ==
    /\ result # NoResult
    /\ purchase' \in PlainPurchases
    /\ personalization' \in PairProfiles
    /\ trust_score' \in PairTrust
    /\ result' = score_purchase(purchase', personalization', trust_score')
    /\ UNCHANGED dbVars

PairNext == ScorePurchase \/ Rescore

SpecPair == PairInit /\ [][PairNext]_vars

\* the inputs of the call at hand, as the scorer sees them
CallMerchant == _norm_merchant(purchase.merchant)
CallFacts == facts_get(personalization.merchant_facts, CallMerchant)
CallRestricted == restricted_of(CallFacts)
CallGiftCard == _looks_like_gift_card(purchase.item_description)
CallTier == _merchant_tier(CallMerchant, personalization)
CallRawScore5 == raw_score5(purchase, personalization, trust_score)

(***************************************************************************)
(* Claims on the scorer                                                    *)
(***************************************************************************)
\* C1: a purchase at a merchant of the HIGH tier whose facts are not
\* restricted and whose item matches no gift-card keyword is decided
\* APPROVE with challenge_method NONE, whatever its risk_score.
HighTierApproved ==
    (result # NoResult /\ CallMerchant \in personalization.trusted_high
        /\ ~CallRestricted /\ ~CallGiftCard)
    => (result.returned /\ result.decision = "APPROVE"
        /\ result.challenge_method = "NONE")

\* a HIGH-tier purchase approved although its risk_level is HIGH
HighTierApprovedWitness ==
    /\ result.returned
    /\ CallMerchant \in personalization.trusted_high
    /\ ~CallRestricted /\ ~CallGiftCard
    /\ result.risk_level = "HIGH"
    /\ result.decision = "APPROVE"

\* C2: a purchase at a merchant whose facts mark restricted is decided
\* CHALLENGE with PASSKEY, also when the merchant is in the HIGH tier.
RestrictedChallenged ==
    (result # NoResult /\ CallRestricted)
    => (result.returned /\ result.decision = "CHALLENGE"
        /\ result.challenge_method = "PASSKEY")

\* a restricted HIGH-tier merchant challenged at risk_score 0
RestrictedChallengedWitness ==
    /\ result.returned
    /\ CallRestricted
    /\ CallTier = "HIGH"
    /\ result.risk_score = 0
    /\ result.decision = "CHALLENGE"

\* C3: risk_score is an integer in 0..100, the clamp of the rounded raw
\* sum, and risk_level is LOW below 30, MEDIUM from 30 to 59, HIGH from 60.
ScoreRangeAndLevel ==
    result.returned =>
        /\ result.risk_score \in 0..100
        /\ (CallRawScore5 < 0 => result.risk_score = 0)
        /\ (CallRawScore5 > 500 => result.risk_score = 100)
        /\ (result.risk_level = "LOW") = (result.risk_score < 30)
        /\ (result.risk_level = "MEDIUM")
               = (result.risk_score >= 30 /\ result.risk_score <= 59)
        /\ (result.risk_level = "HIGH") = (result.risk_score >= 60)

\* a raw sum below 0 was clamped to 0
ScoreRangeAndLevelWitness ==
    result.returned /\ CallRawScore5 < 0 /\ result.risk_score = 0

\* C4: two calls that agree on the restricted flag, the gift-card match and
\* the trust tier return the same decision and challenge_method; a MEDIUM or
\* LOW tier is always challenged with PASSKEY.
DecisionByFlagsAndTier ==
    [][ /\ (result.returned /\ result'.returned
            /\ CallRestricted' = CallRestricted
            /\ CallGiftCard' = CallGiftCard
            /\ CallTier' = CallTier)
           => (result'.decision = result.decision
               /\ result'.challenge_method = result.challenge_method)
        /\ (result'.returned /\ CallTier' \in {"MEDIUM", "LOW"})
           => (result'.decision = "CHALLENGE"
               /\ result'.challenge_method = "PASSKEY")
      ]_vars

\* a LOW-tier purchase challenged at risk_score 0, after a first call
DecisionByFlagsAndTierWitness ==
    /\ result.returned
    /\ CallTier = "LOW" /\ ~CallRestricted /\ ~CallGiftCard
    /\ result.risk_score = 0
    /\ result.risk_level = "LOW"
    /\ result.decision = "CHALLENGE"

(***************************************************************************)
(* backboard.py: the fact store and query_memories                         *)
(***************************************************************************)
\* seed_messages of demo_seed_sweden
SeedMessages ==
    << <<"TP_PROFILE", " ", "{profile-se}">>,
       <<"TP_BASELINE", " ", "{baseline-se}">>,
       <<"TP_TRUSTED_MERCHANT", "_HIGH", " ", "ICA">>,
       <<"TP_TRUSTED_MERCHANT", "_HIGH", " ", "IKEA">>,
       <<"TP_TRUSTED_MERCHANT", "_MED", " ", "SJ">>,
       <<"TP_TRUSTED_MERCHANT", "_MED", " ", "H&M">>,
       <<"TP_TRUSTED_MERCHANT", "_HIGH", " ", "Systembolaget">>,
       <<"TP_MERCHANT_FACTS", " ", "{facts-ica}">>,
       <<"TP_MERCHANT_FACTS", " ", "{facts-systembolaget}">>,
       <<"TP_MERCHANT_FACTS", " ", "{facts-sj}">>,
       <<"TP_MERCHANT_FACTS", " ", "{facts-h&m}">>,
       <<"TP_MERCHANT_FACTS", " ", "{facts-ikea}">> >>

TopK == 80

AuthorizeQuery ==
    <<"Return TP_PROFILE / TP_BASELINE / TP_TRUSTED_MERCHANT_* / TP_MERCHANT_FACTS for authorization.">>

\* How Backboard answers one query_memories call:
\*   "retrieved"  the message response carries the stored memories
\*   "listed"     the message response carries none; list_memories answers
\*   "down"       every endpoint is unreachable or erroring (HTTPException 502)
BackboardAnswers == {"retrieved", "listed", "down"}

nonblank(m) == strip(or_empty(m)) # EmptyStr

\* _normalize_memories_payload: stripped, non-empty contents
_normalize_memories_payload(store) ==
    LET kept == SelectSeq(store, nonblank)
    IN  [i \in 1..Len(kept) |-> strip(kept[i])]

is_tp_or_query(m) ==
    \/ startswith(lower(or_empty(m)), <<"tp_profile">>)
    \/ startswith(lower(or_empty(m)), <<"tp_baseline">>)
    \/ startswith(lower(or_empty(m)), <<"tp_trusted_merchant">>)
    \/ contains(lower(or_empty(m)), lower(AuthorizeQuery))

\* the list returned when the answer is not "down"
query_memories(answer, store, top_k) ==
    LET retrieved == IF answer = "retrieved" THEN store ELSE <<>>
        listed == _normalize_memories_payload(store)
        tp_only == SelectSeq(listed, is_tp_or_query)
        mems == IF retrieved # <<>> THEN retrieved
                ELSE IF tp_only # <<>> THEN tp_only ELSE listed
    IN  SubSeq(mems, 1, IF Len(mems) < top_k THEN Len(mems) ELSE top_k)

(***************************************************************************)
(* db.py: the statements                                                   *)
(***************************************************************************)
get_session(sessions_, session_id) == session_id \in sessions_

get_card_any_session(cards_, session_id, card_id) ==
    { c \in cards_ : c.id = card_id }

\* the rows SELECTed: at most one
get_card(cards_, session_id, card_id) ==
    { c \in cards_ : c.session_id = session_id /\ c.id = card_id }

get_challenge_any_session(challenges_, session_id, challenge_id) ==
    { i \in 1..Len(challenges_) : challenges_[i].challenge_id = challenge_id }

\* the rows SELECTed: at most one
get_challenge(challenges_, session_id, challenge_id) ==
    { i \in 1..Len(challenges_) :
        /\ challenges_[i].session_id = session_id
        /\ challenges_[i].challenge_id = challenge_id }

create_challenge_resolved(challenges_, challenge_id, session_id, method, status, now) ==
    Append(challenges_,
           [ challenge_id |-> challenge_id, session_id |-> session_id,
             method |-> method, status |-> "COMPLETED", created_at |-> now,
             resolved_at |-> now ])

create_challenge_once_per_session(challenges_, challenge_id, session_id, method, status, now) ==
    IF \E i \in 1..Len(challenges_) :
          challenges_[i].session_id = session_id /\ challenges_[i].status = "PENDING"
    THEN challenges_
    ELSE Append(challenges_,
                [ challenge_id |-> challenge_id, session_id |-> session_id,
                  method |-> method, status |-> status, created_at |-> now,
                  resolved_at |-> 0 ])

create_challenge_deferred(challenges_, challenge_id, session_id, method, status, now) ==
    challenges_

\* resolved_at 0 is NULL
create_challenge(challenges_, challenge_id, session_id, method, status, now) ==
    Append(challenges_,
           [ challenge_id |-> challenge_id, session_id |-> session_id,
             method |-> method, status |-> status, created_at |-> now,
             resolved_at |-> 0 ])

resolve_challenge_whole_session(challenges_, challenge_id, session_id, status, now) ==
    [ i \in 1..Len(challenges_) |->
        IF challenges_[i].session_id = session_id
        THEN [ challenges_[i] EXCEPT !.status = status, !.resolved_at = now ]
        ELSE challenges_[i] ]

resolve_challenge_if_pending(challenges_, challenge_id, session_id, status, now) ==
    [ i \in 1..Len(challenges_) |->
        IF /\ challenges_[i].challenge_id = challenge_id
           /\ challenges_[i].session_id = session_id
           /\ challenges_[i].status = "PENDING"
        THEN [ challenges_[i] EXCEPT !.status = status, !.resolved_at = now ]
        ELSE challenges_[i] ]

resolve_challenge_unstamped(challenges_, challenge_id, session_id, status, now) ==
    [ i \in 1..Len(challenges_) |->
        IF /\ challenges_[i].challenge_id = challenge_id
           /\ challenges_[i].session_id = session_id
        THEN [ challenges_[i] EXCEPT !.status = status ]
        ELSE challenges_[i] ]

resolve_challenge(challenges_, challenge_id, session_id, status, now) ==
    [ i \in 1..Len(challenges_) |->
        IF /\ challenges_[i].challenge_id = challenge_id
           /\ challenges_[i].session_id = session_id
        THEN [ challenges_[i] EXCEPT !.status = status, !.resolved_at = now ]
        ELSE challenges_[i] ]

AttemptRow(id, session_id, card_id, pur, res, status, challenge_id, now) ==
    [ id               |-> id,
      session_id       |-> session_id,
      card_id          |-> card_id,
      merchant         |-> pur.merchant,
      amount           |-> pur.amount,
      country          |-> pur.country,
      channel          |-> upper(IF or_empty(pur.channel) = EmptyStr
                                 THEN <<"CNP">> ELSE pur.channel),
      item_description |-> pur.item_description,
      dcc_offered      |-> pur.dcc_offered,
      decision         |-> res.decision,
      challenge_method |-> res.challenge_method,
      risk_score       |-> res.risk_score,
      status           |-> status,
      challenge_id     |-> challenge_id,
      created_at       |-> now ]

insert_payment_attempt_replacing(attempts, session_id, card_id, pur, res, status, challenge_id, now) ==
    Append(SelectSeq(attempts, LAMBDA a : a.card_id # card_id),
           AttemptRow(Len(attempts) + 1, session_id, card_id, pur, res, status,
                      challenge_id, now))

\* INSERT INTO payment_attempts; id is AUTOINCREMENT, challenge_id 0 is NULL
insert_payment_attempt(attempts, session_id, card_id, pur, res, status, challenge_id, now) ==
    Append(attempts,
           AttemptRow(Len(attempts) + 1, session_id, card_id, pur, res, status,
                      challenge_id, now))

(***************************************************************************)
(* main.py: the handlers                                                   *)
(***************************************************************************)
\* the last timestamp _now_iso() hands out
MaxClock == 5
\* runs of demo_seed_sweden per session
MaxSeeds == 1
\* rows of payment_attempts
MaxAttempts == 2
\* records retrieved in one extraction
MaxRecords == 2

NoPurchase == Purchase(NoneStr, 0, NoneStr, FALSE, NoneStr, NoneStr, NoneStr)

\* the request makes no scoring call
NoScoring ==
    /\ purchase' = NoPurchase
    /\ personalization' = EmptyPersonalization
    /\ trust_score' = BaselineTrust
    /\ result' = NoResult

Init ==
    /\ purchase = NoPurchase
    /\ personalization = EmptyPersonalization
    /\ trust_score = BaselineTrust
    /\ result = NoResult
    /\ DbInit

\* the purchases of the authorize requests: online, no DCC, no shipping
AuthPurchases ==
    { Purchase(<<"IKEA">>, 500, <<"SE">>, FALSE, <<"CNP">>, NoneStr, NoneStr),
      Purchase(<<"Systembolaget">>, 500, <<"SE">>, FALSE, <<"CNP">>, NoneStr, NoneStr),
      Purchase(<<"Unknown", " ", "Shop">>, 1500, <<"FR">>, FALSE, <<"CNP">>,
               <<"Steam", " ", "Gift", " ", "Card", " ", "$100">>, NoneStr) }

\* two more request bodies: one with amount 0 and one without a merchant
BodyPurchases ==
    { Purchase(<<"IKEA">>, 0, <<"SE">>, FALSE, <<"CNP">>, NoneStr, NoneStr),
      Purchase(NoneStr, 500, <<"SE">>, FALSE, <<"CNP">>, NoneStr, NoneStr) }

\* the body parses as a PaymentAuthorizeRequest: the required text fields are
\* there; amount is a plain float, with no constraint on its value
PaymentAuthorizeRequest(pur) ==
    /\ pur.merchant # NoneStr
    /\ pur.country # NoneStr

VerifyActions == { <<" ", "approve", " ">>, <<"DENY">>, <<"maybe">> }

ResolveActionsWithMaybe == { <<"APPROVE">>, <<"DENY">>, <<"MAYBE">> }

\* the actions payment_challenge_verify accepts, trimmed and upper-cased
ResolveActions == { <<"APPROVE">>, <<"DENY">> }

RECURSIVE Seeded(_)
\* the store after n runs of demo_seed_sweden
Seeded(n) == IF n = 0 THEN <<>> ELSE Seeded(n - 1) \o SeedMessages

Stores == { Seeded(n) : n \in 0..MaxSeeds }

\* extract_personalization(query_memories(...)) and score_purchase(...) of
\* payment_authorize, tabulated once for every store, answer and purchase
AuthorizeProfile ==
    [ store \in Stores, answer \in BackboardAnswers \ {"down"} |->
        extract_personalization(query_memories(answer, store, TopK)) ]

AuthorizeResult ==
    [ store \in Stores, answer \in BackboardAnswers \ {"down"},
      pur \in AuthPurchases \cup BodyPurchases |->
        score_purchase(pur, AuthorizeProfile[store, answer], BaselineTrust) ]

\* POST /sessions: session_id is a fresh uuid4
create_session(up) ==
    /\ Cardinality(sessions) < Cardinality(SessionIds)
    /\ request' = [op |-> "create_session"]
    /\ NoScoring
    /\ IF up
       THEN /\ clock + 1 <= MaxClock
            /\ sessions' = sessions \cup {Cardinality(sessions) + 1}
            /\ clock' = clock + 1
            /\ backboard' = "up"
            /\ response' = [op |-> "create_session", code |-> 201,
                            session_id |-> Cardinality(sessions) + 1]
       ELSE /\ backboard' = "down"
            /\ response' = [op |-> "create_session", code |-> 502]
            /\ UNCHANGED <<sessions, clock>>
    /\ UNCHANGED <<cards, payment_attempts, challenges, memories, runs>>

\* POST /sessions/{session_id}/demo/seed-sweden
demo_seed_sweden(session_id, up) ==
    /\ request' = [op |-> "seed", session_id |-> session_id]
    /\ NoScoring
    /\ IF ~get_session(sessions, session_id)
       THEN /\ response' = [op |-> "seed", code |-> 404]
            /\ backboard' = "unused"
            /\ UNCHANGED <<cards, memories, clock>>
       ELSE IF ~up
       THEN /\ response' = [op |-> "seed", code |-> 502]
            /\ backboard' = "down"
            /\ UNCHANGED <<cards, memories, clock>>
       ELSE /\ clock + 1 <= MaxClock
            /\ Len(memories[session_id]) < MaxSeeds * Len(SeedMessages)
            /\ clock' = clock + 1
            /\ memories' = [memories EXCEPT ![session_id] = @ \o SeedMessages]
            /\ cards' = IF \E c \in cards : c.session_id = session_id
                        THEN cards
                        ELSE cards \cup { [id |-> Cardinality(cards) + 1,
                                           session_id |-> session_id,
                                           created_at |-> clock + 1] }
            /\ backboard' = "up"
            /\ response' = [op |-> "seed", code |-> 200]
    /\ UNCHANGED <<sessions, payment_attempts, challenges, runs>>

\* POST /sessions/{session_id}/payment/authorize
payment_authorize(session_id, card_id, pur, answer) ==
    /\ request' = [op |-> "authorize", session_id |-> session_id, card_id |-> card_id,
                   merchant |-> pur.merchant, amount |-> pur.amount]
    /\ UNCHANGED <<sessions, cards, memories, runs>>
    /\ IF ~PaymentAuthorizeRequest(pur)
       THEN /\ response' = [op |-> "authorize", code |-> 422, detail |-> "body"]
            /\ backboard' = "unused"
            /\ NoScoring
            /\ UNCHANGED <<payment_attempts, challenges, clock>>
       ELSE IF ~get_session(sessions, session_id)
       THEN /\ response' = [op |-> "authorize", code |-> 404, detail |-> "session"]
            /\ backboard' = "unused"
            /\ NoScoring
            /\ UNCHANGED <<payment_attempts, challenges, clock>>
       ELSE IF get_card(cards, session_id, card_id) = {}
       THEN /\ response' = [op |-> "authorize", code |-> 404, detail |-> "card"]
            /\ backboard' = "unused"
            /\ NoScoring
            /\ UNCHANGED <<payment_attempts, challenges, clock>>
       ELSE IF answer = "down"
       THEN /\ response' = [op |-> "authorize", code |-> 502, detail |-> "backboard"]
            /\ backboard' = "down"
            /\ NoScoring
            /\ UNCHANGED <<payment_attempts, challenges, clock>>
       ELSE LET p == AuthorizeProfile[memories[session_id], answer]
                r == AuthorizeResult[memories[session_id], answer, pur]
                challenge_id == Len(challenges) + 1
            IN  /\ backboard' = answer
                /\ purchase' = pur
                /\ personalization' = p
                /\ trust_score' = BaselineTrust
                /\ result' = r
                /\ IF r.raised
                   THEN /\ response' = [op |-> "authorize", code |-> 500,
                                        detail |-> "exception"]
                        /\ UNCHANGED <<payment_attempts, challenges, clock>>
                   ELSE IF r.decision = "APPROVE"
                   THEN /\ clock + 1 <= MaxClock
                        /\ Len(payment_attempts) < MaxAttempts
                        /\ payment_attempts' =
                               insert_payment_attempt(payment_attempts, session_id,
                                   card_id, pur, r, "APPROVED", 0, clock + 1)
                        /\ clock' = clock + 1
                        /\ response' = [op |-> "authorize", code |-> 200,
                                        status |-> "APPROVED",
                                        decision |-> r.decision,
                                        challenge_method |-> r.challenge_method,
                                        challenge_id |-> 0]
                        /\ UNCHANGED challenges
                   ELSE /\ clock + 1 <= MaxClock
                        /\ Len(payment_attempts) < MaxAttempts
                        /\ challenges' =
                               create_challenge(challenges, challenge_id, session_id,
                                   r.challenge_method, "PENDING", clock + 1)
                        /\ payment_attempts' =
                               insert_payment_attempt(payment_attempts, session_id,
                                   card_id, pur, r, "CHALLENGE_REQUIRED",
                                   challenge_id, clock + 1)
                        /\ clock' = clock + 1
                        /\ response' = [op |-> "authorize", code |-> 200,
                                        status |-> "CHALLENGE_REQUIRED",
                                        decision |-> r.decision,
                                        challenge_method |-> r.challenge_method,
                                        challenge_id |-> challenge_id]

\* POST /sessions/{session_id}/payment/challenge/verify
payment_challenge_verify(session_id, challenge_id, action_text) ==
    /\ request' = [op |-> "verify", session_id |-> session_id,
                   challenge_id |-> challenge_id, action |-> action_text]
    /\ NoScoring
    /\ backboard' = "unused"
    /\ UNCHANGED <<sessions, cards, memories, payment_attempts, runs>>
    /\ IF ~get_session(sessions, session_id)
       THEN /\ response' = [op |-> "verify", code |-> 404, detail |-> "session"]
            /\ UNCHANGED <<challenges, clock>>
       ELSE IF get_challenge(challenges, session_id, challenge_id) = {}
       THEN /\ response' = [op |-> "verify", code |-> 404, detail |-> "challenge"]
            /\ UNCHANGED <<challenges, clock>>
       ELSE LET ch == challenges[CHOOSE i \in
                          get_challenge(challenges, session_id, challenge_id) : TRUE]
                action == upper(strip(action_text))
            IN  IF action \notin ResolveActions
                THEN /\ response' = [op |-> "verify", code |-> 400, detail |-> "action"]
                     /\ UNCHANGED <<challenges, clock>>
                ELSE /\ clock + 1 <= MaxClock
                     /\ challenges' =
                            resolve_challenge(challenges, challenge_id, session_id,
                                IF action = <<"DENY">> THEN "DENIED" ELSE "COMPLETED",
                                clock + 1)
                     /\ clock' = clock + 1
                     /\ response' = [op |-> "verify", code |-> 200,
                                     status |-> IF action = <<"DENY">>
                                                THEN "DENIED" ELSE "COMPLETED",
                                     challenge_id |-> challenge_id,
                                     method |-> ch.method,
                                     ch |-> ch]

CreateSession == \E up \in BOOLEAN : create_session(up)

DemoSeed == \E s \in SessionIds, up \in BOOLEAN : demo_seed_sweden(s, up)

Authorize ==
    \E s \in SessionIds, c \in CardIds, pur \in AuthPurchases,
       answer \in BackboardAnswers :
        payment_authorize(s, c, pur, answer)

Verify ==
    \E s \in SessionIds, ch \in 1..(Len(challenges) + 1), a \in VerifyActions :
        payment_challenge_verify(s, ch, a)

Next == CreateSession \/ DemoSeed \/ Authorize \/ Verify

Spec == Init /\ [][Next]_vars

(***************************************************************************)
(* Authorize requests on a seeded session, with any of the request bodies  *)
(***************************************************************************)
\* the state after POST /sessions and one demo_seed_sweden
SeededInit ==
    /\ purchase = NoPurchase
    /\ personalization = EmptyPersonalization
    /\ trust_score = BaselineTrust
    /\ result = NoResult
    /\ sessions = {1}
    /\ cards = { [id |-> 1, session_id |-> 1, created_at |-> 2] }
    /\ payment_attempts = <<>>
    /\ challenges = <<>>
    /\ memories = [s \in SessionIds |-> IF s = 1 THEN SeedMessages ELSE <<>>]
    /\ backboard = "up"
    /\ request = [op |-> "seed", session_id |-> 1]
    /\ response = [op |-> "seed", code |-> 200]
    /\ clock = 2
    /\ runs = NoRuns

AuthorizeBody ==
    \E s \in SessionIds, pur \in AuthPurchases \cup BodyPurchases,
       answer \in BackboardAnswers :
        payment_authorize(s, 1, pur, answer)

SpecBody == SeededInit /\ [][AuthorizeBody]_vars

(***************************************************************************)
(* Authorize calls followed statement by statement, so that two calls can  *)
(* interleave and a call can stop between its two writes                   *)
(***************************************************************************)
\* _get_session_or_404 and db.get_card, up to the await of query_memories
run_lookup(r, session_id, card_id, pur) ==
    /\ runs[r].pc = "idle"
    /\ runs' = [runs EXCEPT ![r] =
                 IF ~PaymentAuthorizeRequest(pur)
                 THEN [pc |-> "done", code |-> 422]
                 ELSE IF ~get_session(sessions, session_id)
                 THEN [pc |-> "done", code |-> 404]
                 ELSE IF get_card(cards, session_id, card_id) = {}
                 THEN [pc |-> "done", code |-> 404]
                 ELSE [pc |-> "querying", session_id |-> session_id,
                       card_id |-> card_id, purchase |-> pur]]
    /\ UNCHANGED <<scoreVars, sessions, cards, payment_attempts, challenges,
                   memories, backboard, request, response, clock>>

\* query_memories returns; extract_personalization and score_purchase
run_retrieve(r, answer) ==
    /\ runs[r].pc = "querying"
    /\ runs' = [runs EXCEPT ![r] =
                 IF answer = "down"
                 THEN [pc |-> "done", code |-> 502]
                 ELSE LET res == AuthorizeResult[memories[@.session_id], answer,
                                                 @.purchase]
                      IN  IF res.raised
                          THEN [pc |-> "done", code |-> 500]
                          ELSE [pc |-> "scored", session_id |-> @.session_id,
                                card_id |-> @.card_id, purchase |-> @.purchase,
                                result |-> res]]
    /\ UNCHANGED <<scoreVars, sessions, cards, payment_attempts, challenges,
                   memories, backboard, request, response, clock>>

\* the first write: the attempt of an APPROVE, the challenge of a CHALLENGE
run_write(r) ==
    /\ runs[r].pc = "scored"
    /\ clock' = clock + 1
    /\ IF runs[r].result.decision = "APPROVE"
       THEN /\ payment_attempts' =
                   insert_payment_attempt(payment_attempts, runs[r].session_id,
                       runs[r].card_id, runs[r].purchase, runs[r].result,
                       "APPROVED", 0, clock + 1)
            /\ runs' = [runs EXCEPT ![r] =
                         [pc |-> "done", code |-> 200, status |-> "APPROVED",
                          challenge_id |-> 0]]
            /\ UNCHANGED challenges
       ELSE /\ challenges' =
                   create_challenge(challenges, Len(challenges) + 1,
                       runs[r].session_id, runs[r].result.challenge_method,
                       "PENDING", clock + 1)
            /\ runs' = [runs EXCEPT ![r] =
                         [pc |-> "challenged", session_id |-> @.session_id,
                          card_id |-> @.card_id, purchase |-> @.purchase,
                          result |-> @.result,
                          challenge_id |-> Len(challenges) + 1]]
            /\ UNCHANGED payment_attempts
    /\ UNCHANGED <<scoreVars, sessions, cards, memories, backboard, request,
                   response>>

\* the second write of a CHALLENGE: the attempt that references the challenge
run_insert(r) ==
    /\ runs[r].pc = "challenged"
    /\ clock' = clock + 1
    /\ payment_attempts' =
           insert_payment_attempt(payment_attempts, runs[r].session_id,
               runs[r].card_id, runs[r].purchase, runs[r].result,
               "CHALLENGE_REQUIRED", runs[r].challenge_id, clock + 1)
    /\ runs' = [runs EXCEPT ![r] =
                 [pc |-> "done", code |-> 200, status |-> "CHALLENGE_REQUIRED",
                  session_id |-> @.session_id, card_id |-> @.card_id,
                  purchase |-> @.purchase, challenge_id |-> @.challenge_id]]
    /\ UNCHANGED <<scoreVars, sessions, cards, challenges, memories, backboard,
                   request, response>>

\* the call ends between the two writes: the process dies or the INSERT fails
run_stop(r) ==
    /\ runs[r].pc = "challenged"
    /\ runs' = [runs EXCEPT ![r] =
                 [pc |-> "stopped", session_id |-> @.session_id,
                  challenge_id |-> @.challenge_id]]
    /\ UNCHANGED <<scoreVars, sessions, cards, payment_attempts, challenges,
                   memories, backboard, request, response, clock>>

RunLookup ==
    \E r \in RunIds, s \in SessionIds, pur \in AuthPurchases : run_lookup(r, s, 1, pur)

RunRetrieve == \E r \in RunIds, answer \in BackboardAnswers : run_retrieve(r, answer)

RunWrite == \E r \in RunIds : run_write(r)

RunInsert == \E r \in RunIds : run_insert(r)

RunStop == \E r \in RunIds : run_stop(r)

RunsNext == RunLookup \/ RunRetrieve \/ RunWrite \/ RunInsert \/ RunStop \/ Verify

SpecRuns == SeededInit /\ [][RunsNext]_vars

(***************************************************************************)
(* Extraction from a record sequence, then further records inserted or the *)
(* sequence reordered and extracted again                                  *)
(***************************************************************************)
\* records the extractor takes something from
ExtractRecords ==
    { TagProfile \o <<" ", "{profile-se}">>,
      TagBaseline \o <<" ", "{baseline-se}">>,
      TagTrustedHigh \o <<" ", "IKEA">>,
      TagTrustedMed \o <<" ", "Ikea">>,
      TagTrustedLow \o <<" ", "IKEA">>,
      TagTrusted \o <<" ", "IKEA">>,
      TagTrustedMed \o <<" ", "SJ">>,
      TagMerchantFacts \o <<" ", "{facts-ikea}">>,
      TagMerchantFacts \o <<" ", "{facts-ikea-spaced}">>,
      TagMerchantFacts \o <<" ", "{facts-ikea-numeric}">> }

\* records with nothing to take: no text, no recognised tag (the tags are
\* case-sensitive), or a JSON tag whose payload is missing, malformed or not
\* an object
SkippedRecords ==
    { NoneStr, EmptyStr, <<" ">>,
      <<"NOTE", " ", "IKEA">>,
      <<"tp_profile", " ", "{profile-se}">>,
      TagProfile \o <<" ", "{broken">>,
      TagBaseline \o <<" ", "[1, 2]">>,
      TagMerchantFacts \o <<" ", "42">>,
      TagMerchantFacts }

ExtractStores == UNION { [1..n -> ExtractRecords] : n \in 0..MaxRecords }

ExtractPurchases ==
    { Purchase(m, 500, <<"SE">>, FALSE, <<"CNP">>, NoneStr, NoneStr) :
        m \in { <<"IKEA">>, <<"Unknown", " ", "Shop">> } }

ExtractInit ==
    /\ purchase \in ExtractPurchases
    /\ personalization = EmptyPersonalization
    /\ trust_score = BaselineTrust
    /\ result = NoResult
    /\ sessions = {1}
    /\ cards = {}
    /\ payment_attempts = <<>>
    /\ challenges = <<>>
    /\ memories \in { [s \in SessionIds |-> IF s = 1 THEN st ELSE <<>>] :
                        st \in ExtractStores }
    /\ backboard = "unused"
    /\ request = NoRequest
    /\ response = NoResponse
    /\ clock = 0
    /\ runs = NoRuns

\* extract_personalization(records), then score_purchase on the profile
extract_and_score(records) ==
    /\ personalization' = extract_personalization(records)
    /\ result' = score_purchase(purchase, personalization', trust_score)
    /\ request' = [op |-> "extract"]
    /\ UNCHANGED <<purchase, trust_score, sessions, cards, payment_attempts,
                   challenges, backboard, response, clock, runs>>

Extract ==
    /\ request = NoRequest
    /\ extract_and_score(memories[1])
    /\ UNCHANGED memories

InsertAt(records, k, m) ==
    SubSeq(records, 1, k) \o << m >> \o SubSeq(records, k + 1, Len(records))

\* the same records with one more that has nothing to take, at any position
InsertSkipped ==
    /\ request.op = "extract"
    /\ \A i \in 1..Len(memories[1]) : memories[1][i] \notin SkippedRecords
    /\ \E k \in 0..Len(memories[1]), m \in SkippedRecords :
          memories' = [memories EXCEPT ![1] = InsertAt(@, k, m)]
    /\ extract_and_score(memories'[1])

\* the same records with two neighbours exchanged
SwapRecords ==
    /\ request.op = "extract"
    /\ \E k \in 1..(Len(memories[1]) - 1) :
          memories' = [memories EXCEPT ![1] =
                         [i \in 1..Len(@) |-> IF i = k THEN @[k + 1]
                                              ELSE IF i = k + 1 THEN @[k]
                                              ELSE @[i]]]
    /\ memories' # memories
    /\ extract_and_score(memories'[1])

ExtractNext == Extract \/ InsertSkipped \/ SwapRecords

SpecExtract == ExtractInit /\ [][ExtractNext]_vars

(***************************************************************************)
(* Claims about the challenge and payment-attempt tables                   *)
(***************************************************************************)
\* C5: every challenge starts PENDING with resolved_at unset, and COMPLETED
\* and DENIED are terminal: once a challenge's status is COMPLETED or DENIED
\* no later request changes its status or its resolved_at.
TerminalStatusesStay ==
    [][ /\ \A i \in (Len(challenges) + 1)..Len(challenges') :
              /\ challenges'[i].status = "PENDING"
              /\ challenges'[i].resolved_at = 0
        /\ \A i \in 1..Len(challenges) :
              challenges[i].status \in {"COMPLETED", "DENIED"} =>
                  /\ challenges'[i].status = challenges[i].status
                  /\ challenges'[i].resolved_at = challenges[i].resolved_at
      ]_vars

\* C6: resolving a challenge of the session with APPROVE returns COMPLETED and
\* stores COMPLETED; resolving the same challenge again with DENY succeeds too,
\* returns DENIED and leaves the stored status DENIED: resolve does not look at
\* the current status.
ReResolveOverwrites ==
    [][ \A i \in 1..Len(challenges) :
          ( /\ request'.op = "verify"
            /\ request'.session_id \in sessions
            /\ request'.session_id = challenges[i].session_id
            /\ request'.challenge_id = challenges[i].challenge_id )
          => /\ ( /\ challenges[i].status = "PENDING"
                  /\ upper(strip(request'.action)) = <<"APPROVE">> )
                => /\ response'.code = 200
                   /\ response'.status = "COMPLETED"
                   /\ challenges'[i].status = "COMPLETED"
             /\ ( /\ challenges[i].status = "COMPLETED"
                  /\ upper(strip(request'.action)) = <<"DENY">> )
                => /\ response'.code = 200
                   /\ response'.status = "DENIED"
                   /\ challenges'[i].status = "DENIED"
                   /\ challenges'[i].resolved_at > challenges[i].resolved_at
      ]_vars

\* a DENY answered 200 on a challenge that the handler read as COMPLETED
ReResolveOverwritesWitness ==
    /\ request.op = "verify"
    /\ response.code = 200
    /\ response.status = "DENIED"
    /\ response.ch.status = "COMPLETED"
    /\ \E i \in 1..Len(challenges) :
          /\ challenges[i].challenge_id = request.challenge_id
          /\ challenges[i].status = "DENIED"

\* C7: when every Backboard endpoint fails during an authorize request for an
\* existing session and card, the request still answers 200: it scores the
\* purchase against the all-unknown profile and inserts one payment attempt.
AuthorizeSurvivesRetrievalFailure ==
    [][ ( /\ request'.op = "authorize"
          /\ backboard' = "down" )
        => /\ response'.code = 200
           /\ personalization' = EmptyPersonalization
           /\ result'.returned
           /\ Len(payment_attempts') = Len(payment_attempts) + 1
      ]_vars

\* C8: an authorize request whose session does not exist, or whose card_id is
\* no card of that session, answers 404 without calling Backboard, without
\* scoring and without touching any table.
NotFoundRejected ==
    [][ ( /\ request'.op = "authorize"
          /\ \/ request'.session_id \notin sessions
             \/ ~ \E k \in cards : /\ k.id = request'.card_id
                                   /\ k.session_id = request'.session_id )
        => /\ response'.code = 404
           /\ backboard' = "unused"
           /\ result' = NoResult
           /\ UNCHANGED <<sessions, cards, payment_attempts, challenges, memories>>
      ]_vars

\* a 404 for the card of another session, with rows already in both tables
NotFoundRejectedWitness ==
    /\ request.op = "authorize"
    /\ response.code = 404
    /\ request.session_id \in sessions
    /\ \E k \in cards : /\ k.id = request.card_id
                        /\ k.session_id # request.session_id
    /\ payment_attempts # <<>>
    /\ challenges # <<>>

\* C9: an APPROVED attempt has decision APPROVE and no challenge_id, and the
\* request that inserted it created no challenge; a CHALLENGE_REQUIRED attempt
\* has decision CHALLENGE and the challenge_id of a PASSKEY challenge of its
\* session, which the request that inserted it created PENDING; no two
\* attempts share a challenge_id.
AttemptsMatchChallenges ==
    [][ /\ \A i \in 1..Len(payment_attempts') :
              LET a == payment_attempts'[i]
              IN  /\ a.status \in {"APPROVED", "CHALLENGE_REQUIRED"}
                  /\ a.status = "APPROVED" =>
                        /\ a.decision = "APPROVE"
                        /\ a.challenge_id = 0
                  /\ a.status = "CHALLENGE_REQUIRED" =>
                        /\ a.decision = "CHALLENGE"
                        /\ \E j \in 1..Len(challenges') :
                              /\ challenges'[j].challenge_id = a.challenge_id
                              /\ challenges'[j].session_id = a.session_id
                              /\ challenges'[j].method = "PASSKEY"
                        /\ \A k \in 1..Len(payment_attempts') :
                              k # i => payment_attempts'[k].challenge_id # a.challenge_id
        /\ \A i \in (Len(payment_attempts) + 1)..Len(payment_attempts') :
              LET a == payment_attempts'[i]
                  n == Len(challenges)
              IN  IF a.status = "APPROVED"
                  THEN challenges' = challenges
                  ELSE /\ Len(challenges') = n + 1
                       /\ SubSeq(challenges', 1, n) = challenges
                       /\ challenges'[n + 1].challenge_id = a.challenge_id
                       /\ challenges'[n + 1].session_id = a.session_id
                       /\ challenges'[n + 1].status = "PENDING"
      ]_vars

\* an approved attempt beside a challenged one whose challenge was resolved
AttemptsMatchChallengesWitness ==
    /\ \E i, j \in 1..Len(payment_attempts) :
          /\ payment_attempts[i].status = "APPROVED"
          /\ payment_attempts[j].status = "CHALLENGE_REQUIRED"
    /\ \E j \in 1..Len(challenges) : challenges[j].status = "COMPLETED"
    /\ request.op = "verify"

\* C10: payment_attempts is append-only: an authorize request that scores the
\* purchase appends exactly one row, no other request adds a row, no request
\* changes or removes a row, and resolving its challenge leaves an attempt's
\* status CHALLENGE_REQUIRED.
AttemptsAppendOnly ==
    [][ /\ Len(payment_attempts') >= Len(payment_attempts)
        /\ SubSeq(payment_attempts', 1, Len(payment_attempts)) = payment_attempts
        /\ Len(payment_attempts') = Len(payment_attempts) +
              (IF request'.op = "authorize" /\ result'.returned THEN 1 ELSE 0)
        /\ ( request'.op = "verify" /\ response'.code = 200 ) =>
              \A i \in 1..Len(payment_attempts') :
                  payment_attempts'[i].challenge_id = request'.challenge_id =>
                      payment_attempts'[i].status = "CHALLENGE_REQUIRED"
      ]_vars

\* two attempts on one card, the older one's challenge resolved to DENIED
AttemptsAppendOnlyWitness ==
    /\ Len(payment_attempts) = 2
    /\ payment_attempts[1].card_id = payment_attempts[2].card_id
    /\ payment_attempts[1].status = "CHALLENGE_REQUIRED"
    /\ \E j \in 1..Len(challenges) :
          /\ challenges[j].challenge_id = payment_attempts[1].challenge_id
          /\ challenges[j].status = "DENIED"

\* C11: a verify request whose challenge_id names no challenge, or names a
\* challenge of another session than the one in the request, answers 404 and
\* leaves every challenge as it was, status and resolved_at included.
UnknownChallengeNotFound ==
    [][ ( /\ request'.op = "verify"
          /\ ~ \E i \in 1..Len(challenges) :
                  /\ challenges[i].challenge_id = request'.challenge_id
                  /\ challenges[i].session_id = request'.session_id )
        => /\ response'.code = 404
           /\ Len(challenges') = Len(challenges)
           /\ \A i \in 1..Len(challenges) :
                  /\ challenges'[i].status = challenges[i].status
                  /\ challenges'[i].resolved_at = challenges[i].resolved_at
      ]_vars

\* a 404 from an existing session for the PENDING challenge of the other one
UnknownChallengeNotFoundWitness ==
    /\ request.op = "verify"
    /\ response.code = 404
    /\ request.session_id \in sessions
    /\ \E i \in 1..Len(challenges) :
          /\ challenges[i].challenge_id = request.challenge_id
          /\ challenges[i].session_id # request.session_id
          /\ challenges[i].status = "PENDING"
          /\ challenges[i].resolved_at = 0

\* C12: a verify request for an existing challenge of its session whose
\* action, trimmed and upper-cased, is neither APPROVE nor DENY answers 400
\* and leaves the challenge's status and resolved_at (and every other
\* challenge) unchanged.
InvalidActionRejected ==
    [][ \A i \in 1..Len(challenges) :
          ( /\ request'.op = "verify"
            /\ request'.session_id \in sessions
            /\ request'.session_id = challenges[i].session_id
            /\ request'.challenge_id = challenges[i].challenge_id
            /\ upper(strip(request'.action)) # <<"APPROVE">>
            /\ upper(strip(request'.action)) # <<"DENY">> )
          => /\ response'.code = 400
             /\ challenges' = challenges
             /\ clock' = clock
      ]_vars

\* a 400 for the PENDING challenge of the request's own session
InvalidActionRejectedWitness ==
    /\ request.op = "verify"
    /\ response.code = 400
    /\ \E i \in 1..Len(challenges) :
          /\ challenges[i].challenge_id = request.challenge_id
          /\ challenges[i].session_id = request.session_id
          /\ challenges[i].status = "PENDING"

\* C13: a verify request on a PENDING challenge of its session with DENY
\* stores DENIED and returns DENIED, with APPROVE stores COMPLETED and returns
\* COMPLETED; resolved_at becomes set, the returned method is the stored
\* method, and no other challenge changes.
PendingResolved ==
    [][ \A i \in 1..Len(challenges) :
          ( /\ request'.op = "verify"
            /\ request'.session_id \in sessions
            /\ request'.session_id = challenges[i].session_id
            /\ request'.challenge_id = challenges[i].challenge_id
            /\ challenges[i].status = "PENDING"
            /\ upper(strip(request'.action)) \in { <<"APPROVE">>, <<"DENY">> } )
          => LET stored == IF upper(strip(request'.action)) = <<"DENY">>
                           THEN "DENIED" ELSE "COMPLETED"
             IN  /\ response'.code = 200
                 /\ response'.status = stored
                 /\ response'.challenge_id = challenges[i].challenge_id
                 /\ response'.method = challenges[i].method
                 /\ Len(challenges') = Len(challenges)
                 /\ challenges'[i] = [ challenges[i] EXCEPT !.status = stored,
                                                            !.resolved_at = clock' ]
                 /\ challenges'[i].resolved_at # 0
                 /\ \A j \in 1..Len(challenges) :
                        j # i => challenges'[j] = challenges[j]
      ]_vars

\* one of two PENDING challenges of a session resolved, the other untouched
PendingResolvedWitness ==
    /\ request.op = "verify"
    /\ response.code = 200
    /\ response.ch.status = "PENDING"
    /\ \E i, j \in 1..Len(challenges) :
          /\ challenges[i].challenge_id = request.challenge_id
          /\ challenges[i].status = response.status
          /\ challenges[i].resolved_at = clock
          /\ j # i
          /\ challenges[j].session_id = challenges[i].session_id
          /\ challenges[j].status = "PENDING"
          /\ challenges[j].resolved_at = 0

(***************************************************************************)
(* Claims about the scorer: the empty profile and the scenarios            *)
(***************************************************************************)
\* the profile extracted from no records: every field unknown or empty
EmptyExtraction ==
    /\ extract_personalization(<<>>).current_country = NoneStr
    /\ extract_personalization(<<>>).trip_countries = <<>>
    /\ extract_personalization(<<>>).typical_amount_max = NoneNum
    /\ extract_personalization(<<>>).trusted_high = {}
    /\ extract_personalization(<<>>).trusted_med = {}
    /\ extract_personalization(<<>>).trusted_low = {}
    /\ extract_personalization(<<>>).merchant_facts = <<>>

\* C14 as stated: the profile extracted from no records is all-unknown, and
\* every purchase scored against it is decided CHALLENGE with PASSKEY, has
\* tier LOW and has "Low/unknown merchant" among its reasons.
EmptyProfileNamesUnknownMerchant ==
    /\ EmptyExtraction
    /\ (result.returned /\ personalization = extract_personalization(<<>>))
       => /\ result.decision = "CHALLENGE"
          /\ result.challenge_method = "PASSKEY"
          /\ result.merchant_trust_tier = "LOW"
          /\ \E i \in 1..Len(result.reasons) :
                result.reasons[i] = "Low/unknown merchant"

\* C14 amended: as above, but "Low/unknown merchant" is among the reasons
\* exactly when fewer than three rules fired before the tier rule, that is
\* unless the purchase is card-not-present, matches a gift-card keyword and
\* has DCC offered; the list never holds more than three reasons.
EmptyProfileChallenged ==
    /\ EmptyExtraction
    /\ (result.returned /\ personalization = extract_personalization(<<>>))
       => /\ result.decision = "CHALLENGE"
          /\ result.challenge_method = "PASSKEY"
          /\ result.merchant_trust_tier = "LOW"
          /\ Len(result.reasons) <= 3
          /\ ( \E i \in 1..Len(result.reasons) :
                  result.reasons[i] = "Low/unknown merchant" )
             = ~ ( /\ upper(strip(purchase.channel)) = <<"CNP">>
                   /\ _looks_like_gift_card(purchase.item_description)
                   /\ purchase.dcc_offered )

\* an online gift-card purchase with DCC scored against the empty profile:
\* three reasons, none of them the tier's
EmptyProfileChallengedWitness ==
    /\ result.returned
    /\ personalization = extract_personalization(<<>>)
    /\ Len(result.reasons) = 3
    /\ \A i \in 1..3 : result.reasons[i] # "Low/unknown merchant"
    /\ result.decision = "CHALLENGE"
    /\ result.merchant_trust_tier = "LOW"

\* the profile of Scenarios A and B, which is the one demo_seed_sweden stores:
\* travelling in SE, typical_amount_max 600, IKEA HIGH and FURNITURE
ScenarioProfile ==
    /\ personalization.current_country = <<"SE">>
    /\ personalization.trip_countries = << <<"SE">> >>
    /\ personalization.typical_amount_max = 600
    /\ IkeaNorm \in personalization.trusted_high
    /\ category_of(facts_get(personalization.merchant_facts, IkeaNorm)) = <<"FURNITURE">>
    /\ trust_score = 50

ScenarioA ==
    /\ ScenarioProfile
    /\ purchase = Purchase(<<"IKEA">>, 500, <<"SE">>, FALSE, <<"CNP">>, NoneStr, NoneStr)
    /\ result # NoResult

ScenarioB ==
    /\ ScenarioProfile
    /\ purchase = Purchase(<<"Unknown", " ", "Shop">>, 1500, <<"FR">>, FALSE, <<"CNP">>,
                           <<"Steam", " ", "Gift", " ", "Card", " ", "$100">>, NoneStr)
    /\ result # NoResult

\* C15: Scenario A, the IKEA purchase of 500 in SE against the seeded profile,
\* is decided APPROVE with challenge_method NONE, risk_score 0 and risk_level
\* LOW.
ScenarioAApproved ==
    ScenarioA =>
        /\ result.returned
        /\ result.decision = "APPROVE"
        /\ result.challenge_method = "NONE"
        /\ result.risk_score = 0
        /\ result.risk_level = "LOW"

\* payment_authorize answered Scenario A with APPROVED and recorded it
ScenarioAApprovedWitness ==
    /\ ScenarioA
    /\ response.op = "authorize" /\ response.code = 200
    /\ response.status = "APPROVED"
    /\ payment_attempts # <<>>
    /\ payment_attempts[Len(payment_attempts)].risk_score = 0

\* C16 as stated: in Scenario A only the channel (+12), HIGH trust (-25) and
\* FURNITURE (+8) rules contribute, the unclamped sum is -5, and no other rule
\* fires or appends a reason.
ScenarioAThreeRules ==
    ScenarioA =>
        /\ SumDelta(fired_rules(purchase, personalization)) = -5
        /\ { fired_rules(purchase, personalization)[i] :
               i \in 1..Len(fired_rules(purchase, personalization)) }
           = { [delta |-> 12, reason |-> "Online (card-not-present) purchase"],
               [delta |-> 8, reason |-> "Large-ticket retail category"],
               [delta |-> -25, reason |-> "High-trust merchant"] }

\* C16 amended: in Scenario A four rules contribute, in this order: channel
\* (+12), trip country (-10), category FURNITURE (+8) and HIGH trust (-25);
\* the unclamped sum is -15, no other rule fires or appends a reason, and the
\* returned reasons are the first three.
ScenarioAFourRules ==
    ScenarioA =>
        /\ fired_rules(purchase, personalization)
           = << [delta |-> 12, reason |-> "Online (card-not-present) purchase"],
                [delta |-> -10, reason |-> "Purchase is in your declared trip country"],
                [delta |-> 8, reason |-> "Large-ticket retail category"],
                [delta |-> -25, reason |-> "High-trust merchant"] >>
        /\ CallRawScore5 = 5 * (-15)
        /\ result.returned
        /\ result.risk_score = 0
        /\ result.reasons = << "Online (card-not-present) purchase",
                               "Purchase is in your declared trip country",
                               "Large-ticket retail category" >>

\* Scenario A scored, with the trip-country reason second in the result
ScenarioAFourRulesWitness ==
    /\ ScenarioA
    /\ result.returned
    /\ Len(result.reasons) = 3
    /\ result.reasons[2] = "Purchase is in your declared trip country"

\* C17: Scenario B, the gift-card purchase of 1500 in FR at "Unknown Shop"
\* against the seeded profile, is decided CHALLENGE with PASSKEY, has
\* risk_level HIGH, and its reasons hold the gift-card reason and the
\* country-mismatch reason.
ScenarioBChallenged ==
    ScenarioB =>
        /\ result.returned
        /\ result.decision = "CHALLENGE"
        /\ result.challenge_method = "PASSKEY"
        /\ result.risk_level = "HIGH"
        /\ \E i \in 1..Len(result.reasons) :
              result.reasons[i] = "Item resembles a gift card / voucher (high scam risk)"
        /\ \E i \in 1..Len(result.reasons) :
              result.reasons[i] = "Country mismatch vs travel mode"

\* payment_authorize answered Scenario B with a pending challenge
ScenarioBChallengedWitness ==
    /\ ScenarioB
    /\ response.op = "authorize" /\ response.code = 200
    /\ response.status = "CHALLENGE_REQUIRED"
    /\ result.risk_score = 100
    /\ challenges # <<>>
    /\ challenges[Len(challenges)].status = "PENDING"

(***************************************************************************)
(* Merchant names in several spellings: records extracted, then a purchase *)
(* scored and scored again under another spelling of its merchant          *)
(***************************************************************************)
Spellings == { <<"IKEA">>, <<" ", "ikea", " ">>, <<"Ikea">> }

SpelledTags == { TagTrustedHigh, TagTrustedMed, TagTrustedLow, TagTrusted }

SpelledRecords ==
    { tag \o <<" ">> \o m : tag \in SpelledTags, m \in Spellings }
    \cup { TagMerchantFacts \o <<" ", "{facts-ikea}">>,
           TagMerchantFacts \o <<" ", "{facts-ikea-spaced}">> }

SpelledStores ==
    UNION { [1..n -> SpelledRecords] : n \in 0..MaxRecords }

SpelledPurchases ==
    { Purchase(m, 500, <<"SE">>, FALSE, <<"CNP">>, NoneStr, NoneStr) :
        m \in Spellings \cup { <<"Unknown", " ", "Shop">> } }

NormInit ==
    /\ purchase \in SpelledPurchases
    /\ personalization = EmptyPersonalization
    /\ trust_score = BaselineTrust
    /\ result = NoResult
    /\ sessions = {1}
    /\ cards = {}
    /\ payment_attempts = <<>>
    /\ challenges = <<>>
    /\ memories \in { [s \in SessionIds |-> IF s = 1 THEN st ELSE <<>>] :
                        st \in SpelledStores }
    /\ backboard = "unused"
    /\ request = NoRequest
    /\ response = NoResponse
    /\ clock = 0
    /\ runs = NoRuns

\* extract_personalization on the retrieved records, then score_purchase
ScoreRetrieved ==
    /\ result = NoResult
    /\ personalization' = extract_personalization(memories[1])
    /\ result' = score_purchase(purchase, personalization', trust_score)
    /\ UNCHANGED <<purchase, trust_score>>
    /\ UNCHANGED dbVars

\* the same purchase under another spelling of a merchant name, same profile
Respell ==
    /\ result # NoResult
    /\ \E m \in Spellings \cup { <<"Unknown", " ", "Shop">> } :
          purchase' = [purchase EXCEPT !.merchant = m]
    /\ purchase' # purchase
    /\ result' = score_purchase(purchase', personalization, trust_score)
    /\ UNCHANGED <<personalization, trust_score>>
    /\ UNCHANGED dbVars

NormNext == ScoreRetrieved \/ Respell

SpecNorm == NormInit /\ [][NormNext]_vars

\* every key the extractor stored
StoredKeys ==
    personalization.trusted_high \cup personalization.trusted_med
        \cup personalization.trusted_low \cup DOMAIN personalization.merchant_facts

\* C18: merchant names are trimmed and lower-cased wherever the extractor
\* stores them as keys and wherever the scorer looks them up: every stored key
\* is trimmed and lower-case, a tag or facts record naming the merchant in any
\* spelling lands on the one key, and two purchases that differ only in the
\* spelling of the merchant (case, outer blanks) get the same tier, the same
\* facts entry, the same decision and the same risk_score.
SpellingInsensitive ==
    /\ [] ( \A k \in StoredKeys : lower(strip(k)) = k )
    /\ [] ( result # NoResult =>
              \A i \in 1..Len(memories[1]), m \in Spellings :
                /\ memories[1][i] \in { TagTrustedHigh \o <<" ">> \o m,
                                        TagTrusted \o <<" ">> \o m }
                   => <<"ikea">> \in personalization.trusted_high
                /\ memories[1][i] = TagTrustedMed \o <<" ">> \o m
                   => <<"ikea">> \in personalization.trusted_med
                /\ memories[1][i] = TagTrustedLow \o <<" ">> \o m
                   => <<"ikea">> \in personalization.trusted_low
                /\ memories[1][i] \in { TagMerchantFacts \o <<" ", "{facts-ikea}">>,
                                        TagMerchantFacts \o <<" ", "{facts-ikea-spaced}">> }
                   => DOMAIN personalization.merchant_facts = { <<"ikea">> } )
    /\ [][ ( /\ result.returned /\ result'.returned
             /\ personalization' = personalization
             /\ trust_score' = trust_score
             /\ purchase' = [purchase EXCEPT !.merchant = purchase'.merchant]
             /\ lower(strip(purchase'.merchant)) = lower(strip(purchase.merchant)) )
           => /\ result'.merchant_trust_tier = result.merchant_trust_tier
              /\ CallFacts' = CallFacts
              /\ result'.decision = result.decision
              /\ result'.challenge_method = result.challenge_method
              /\ result'.risk_score = result.risk_score
         ]_vars

\* "Ikea" scored HIGH and restricted from a tag spelled " ikea " and a facts
\* record spelled " Ikea "
SpellingInsensitiveWitness ==
    /\ result.returned
    /\ purchase.merchant = <<"Ikea">>
    /\ memories[1] = << TagTrustedHigh \o <<" ", " ", "ikea", " ">>,
                        TagMerchantFacts \o <<" ", "{facts-ikea-spaced}">> >>
    /\ result.merchant_trust_tier = "HIGH"
    /\ CallRestricted
    /\ result.decision = "CHALLENGE"

(***************************************************************************)
(* Claims about the request body of authorize                              *)
(***************************************************************************)
\* C19: an authorize request whose purchase fields are malformed, in
\* particular one whose amount is not greater than 0, is rejected as a
\* client-input fault before any scoring or persistence: the response is 422,
\* nothing is scored, and no challenge and no payment attempt is created.
MalformedPurchaseRejected ==
    [][ ( /\ request'.op = "authorize"
          /\ (request'.merchant = NoneStr \/ ~(request'.amount > 0)) )
        => /\ response'.code = 422
           /\ result' = NoResult
           /\ payment_attempts' = payment_attempts
           /\ challenges' = challenges
      ]_vars

(***************************************************************************)
(* Claims about the score as a sum of rule contributions                   *)
(***************************************************************************)
\* the purchase country and shipping country as compared: trimmed, upper-case
ComparedCountry == upper(strip(or_empty(purchase.country)))
ComparedShipping == upper(strip(or_empty(purchase.shipping_country)))

ChannelTerm ==
    IF upper(strip(IF or_empty(purchase.channel) = EmptyStr
                   THEN <<"CNP">> ELSE purchase.channel)) = <<"CNP">>
    THEN 12 ELSE 0

\* +30 if current_country is known and differs from the purchase country
MismatchTermAsStated ==
    IF /\ personalization.current_country # NoneStr
       /\ ComparedCountry # personalization.current_country
    THEN 30 ELSE 0

\* ... and the purchase country is not empty
MismatchTerm ==
    IF /\ personalization.current_country # NoneStr
       /\ ComparedCountry # EmptyStr
       /\ ComparedCountry # personalization.current_country
    THEN 30 ELSE 0

TripTerm ==
    IF \E i \in 1..Len(personalization.trip_countries) :
          personalization.trip_countries[i] = ComparedCountry
    THEN -10 ELSE 0

\* +12 if a shipping country is given and differs from current country
ShippingTermAsStated ==
    IF /\ or_empty(purchase.shipping_country) # EmptyStr
       /\ ComparedShipping # personalization.current_country
    THEN 12 ELSE 0

\* ... and current_country is known
ShippingTerm ==
    IF /\ or_empty(purchase.shipping_country) # EmptyStr
       /\ personalization.current_country # NoneStr
       /\ ComparedShipping # personalization.current_country
    THEN 12 ELSE 0

CategoryTerm ==
    LET category == category_of(CallFacts)
    IN  CASE category = <<"GROCERY">>   -> -5
          [] category = <<"TRANSIT">>   -> -3
          [] category = <<"APPAREL">>   -> 2
          [] category = <<"FURNITURE">> -> 8
          [] category = <<"ALCOHOL">>   -> 5
          [] OTHER                      -> 0

GiftCardTerm == IF CallGiftCard THEN 40 ELSE 0

\* nothing when typical_amount_max is unknown or the amount is at a threshold
AmountTerm ==
    IF personalization.typical_amount_max = NoneNum THEN 0
    ELSE IF purchase.amount > 2 * personalization.typical_amount_max THEN 25
    ELSE IF 10 * purchase.amount > 12 * personalization.typical_amount_max THEN 10
    ELSE 0

DccTerm == IF purchase.dcc_offered THEN 5 ELSE 0

TierTerm ==
    IF CallMerchant \in personalization.trusted_high THEN -25
    ELSE IF CallMerchant \in personalization.trusted_med THEN 5
    ELSE 15

Clamped(x) == IF x < 0 THEN 0 ELSE IF x > 100 THEN 100 ELSE x

\* C20 as stated: at trust_score 50 risk_score is the clamp to 0..100 of the
\* sum of the rule contributions, the country-mismatch rule asking only that
\* current_country is known and differs from the purchase country, and the
\* shipping rule only that a shipping country is given and differs from
\* current country.
ScoreIsStatedSum ==
    (result.returned /\ trust_score = 50)
    => result.risk_score =
          Clamped(ChannelTerm + MismatchTermAsStated + TripTerm
                  + ShippingTermAsStated + CategoryTerm + GiftCardTerm
                  + AmountTerm + DccTerm + TierTerm)

\* C20 amended: at trust_score 50 risk_score is the clamp to 0..100 of the sum
\* of: +12 CNP; +30 if current_country is known, the purchase country is not
\* empty and the two differ; -10 if the purchase country is among
\* trip_countries; +12 if a shipping country is given, current_country is
\* known and the two differ; the category term; +40 on a gift-card match; +25
\* above 2 x typical_amount_max, else +10 above 1.2 x, nothing at a threshold
\* or when it is unknown; +5 DCC; HIGH -25, MEDIUM +5, LOW or unknown +15.
ScoreIsRuleSum ==
    (result.returned /\ trust_score = 50)
    => result.risk_score =
          Clamped(ChannelTerm + MismatchTerm + TripTerm + ShippingTerm
                  + CategoryTerm + GiftCardTerm + AmountTerm + DccTerm
                  + TierTerm)

\* mismatch and trip country both fired on an amount exactly twice the
\* typical maximum, which counts +10, and the sum was not clamped
ScoreIsRuleSumWitness ==
    /\ result.returned /\ trust_score = 50
    /\ MismatchTerm = 30 /\ TripTerm = -10
    /\ purchase.amount = 2 * personalization.typical_amount_max
    /\ AmountTerm = 10
    /\ result.risk_score > 0 /\ result.risk_score < 100

(***************************************************************************)
(* Claims about the reasons list                                           *)
(***************************************************************************)
ReasonIf(fired, reason) == IF fired THEN << reason >> ELSE <<>>

\* the reasons of the rules that fire on the call at hand, in the order
\* channel, country mismatch, trip country, shipping, category, gift card,
\* amount, DCC, trust tier
ReasonsInOrder ==
    LET category == CategoryTerm
        amount == AmountTerm
        tier == TierTerm
    IN  ReasonIf(ChannelTerm # 0, "Online (card-not-present) purchase")
        \o ReasonIf(MismatchTerm # 0, "Country mismatch vs travel mode")
        \o ReasonIf(TripTerm # 0, "Purchase is in your declared trip country")
        \o ReasonIf(ShippingTerm # 0,
                    "Shipping country differs from your current travel country")
        \o ReasonIf(category = -5, "Grocery purchase (low fraud profile)")
        \o ReasonIf(category = -3, "Transit purchase (common while traveling)")
        \o ReasonIf(category = 2, "Retail apparel purchase")
        \o ReasonIf(category = 8, "Large-ticket retail category")
        \o ReasonIf(category = 5, "Restricted category purchase")
        \o ReasonIf(GiftCardTerm # 0,
                    "Item resembles a gift card / voucher (high scam risk)")
        \o ReasonIf(amount = 25, "Amount is much higher than your typical spending")
        \o ReasonIf(amount = 10, "Amount is above your typical range")
        \o ReasonIf(DccTerm # 0, "Merchant offered DCC (extra fee risk)")
        \o ReasonIf(tier = -25, "High-trust merchant")
        \o ReasonIf(tier = 5, "Medium-trust merchant")
        \o ReasonIf(tier = 15, "Low/unknown merchant")

\* C21: the reasons returned are the first three reasons of the rules that
\* fired, in evaluation order; there are between 1 and 3 of them, and the
\* explain string lists exactly those.
ReasonsAreFirstThree ==
    result.returned =>
        LET fired == ReasonsInOrder
            n == Len(result.reasons)
        IN  /\ n >= 1
            /\ n <= 3
            /\ n = (IF Len(fired) < 3 THEN Len(fired) ELSE 3)
            /\ result.reasons = SubSeq(fired, 1, n)
            /\ result.explain.factors = result.reasons

\* seven rules fired and the three reasons returned are the first three
ReasonsAreFirstThreeWitness ==
    /\ result.returned
    /\ Len(ReasonsInOrder) = 7
    /\ result.reasons = << "Online (card-not-present) purchase",
                           "Country mismatch vs travel mode",
                           "Purchase is in your declared trip country" >>
    /\ result.explain.factors = result.reasons

(***************************************************************************)
(* Claims about the extractor                                              *)
(***************************************************************************)
\* C22: a record that is empty, carries no recognised tag, or carries a JSON
\* tag with a malformed or non-object payload is skipped: the sequence with
\* such a record inserted at any position extracts to the same profile as the
\* sequence without it.
SkippedRecordsChangeNothing ==
    [][ ( /\ request.op = "extract" /\ request'.op = "extract"
          /\ \E k \in 0..Len(memories[1]), m \in SkippedRecords :
                memories'[1] = InsertAt(memories[1], k, m) )
        => personalization' = personalization
      ]_vars

\* a profile and facts extracted around a TP_PROFILE record with a broken
\* payload
SkippedRecordsChangeNothingWitness ==
    /\ request.op = "extract"
    /\ Len(memories[1]) = 3
    /\ memories[1][2] = TagProfile \o <<" ", "{broken">>
    /\ personalization.current_country = <<"SE">>
    /\ DOMAIN personalization.merchant_facts = { <<"ikea">> }

\* the TP_MERCHANT_FACTS documents of ExtractRecords; each names IKEA
FactsDocs == { "{facts-ikea}", "{facts-ikea-spaced}", "{facts-ikea-numeric}" }

\* positions of the records that carry one of them
FactsPositions(records) ==
    { i \in 1..Len(records) :
        \E d \in FactsDocs : records[i] = TagMerchantFacts \o <<" ", d>> }

LastOf(positions) == CHOOSE i \in positions : \A j \in positions : j <= i

Occurrences(records, m) == Cardinality({ i \in 1..Len(records) : records[i] = m })

\* C23: merchant facts are last-write-wins, trust tags a set union: the
\* profile holds for a merchant exactly the object of the last
\* TP_MERCHANT_FACTS record naming it, and the trusted_high, trusted_med and
\* trusted_low sets are the same for every order of the same records.
LastFactsWinTagsUnion ==
    /\ [] ( (request.op = "extract" /\ FactsPositions(memories[1]) # {})
            => /\ DOMAIN personalization.merchant_facts = { <<"ikea">> }
               /\ personalization.merchant_facts[<<"ikea">>]
                  = JsonDicts[memories[1][LastOf(FactsPositions(memories[1]))][3]] )
    /\ [][ ( /\ request.op = "extract" /\ request'.op = "extract"
             /\ Len(memories'[1]) = Len(memories[1])
             /\ \A i \in 1..Len(memories[1]) :
                   Occurrences(memories'[1], memories[1][i])
                   = Occurrences(memories[1], memories[1][i]) )
           => /\ personalization'.trusted_high = personalization.trusted_high
              /\ personalization'.trusted_med = personalization.trusted_med
              /\ personalization'.trusted_low = personalization.trusted_low
         ]_vars

\* two facts records for IKEA: the profile holds the second object, which has
\* no home_country, and nothing of the first
LastFactsWinTagsUnionWitness ==
    /\ request.op = "extract"
    /\ memories[1] = << TagMerchantFacts \o <<" ", "{facts-ikea}">>,
                        TagMerchantFacts \o <<" ", "{facts-ikea-spaced}">> >>
    /\ personalization.merchant_facts[<<"ikea">>] = JsonDicts["{facts-ikea-spaced}"]
    /\ "home_country" \notin DOMAIN personalization.merchant_facts[<<"ikea">>]

HasRecord(m) == \E i \in 1..Len(memories[1]) : memories[1][i] = m

NameIf(present, name) == IF present THEN { name } ELSE {}

\* C24: a trust record goes to the tier its prefix names: _HIGH to
\* trusted_high, _MED to trusted_med, _LOW to trusted_low, and a record with
\* no tier suffix to trusted_high; the name stored is the normalized text
\* after the whole tag, so a suffixed record never lands in trusted_high
\* through the legacy rule.
TagsDispatched ==
    request.op = "extract" =>
        /\ personalization.trusted_high
           = NameIf(HasRecord(TagTrustedHigh \o <<" ", "IKEA">>)
                    \/ HasRecord(TagTrusted \o <<" ", "IKEA">>), <<"ikea">>)
        /\ personalization.trusted_med
           = NameIf(HasRecord(TagTrustedMed \o <<" ", "Ikea">>), <<"ikea">>)
             \cup NameIf(HasRecord(TagTrustedMed \o <<" ", "SJ">>), <<"sj">>)
        /\ personalization.trusted_low
           = NameIf(HasRecord(TagTrustedLow \o <<" ", "IKEA">>), <<"ikea">>)

\* a legacy record and a _MED record: IKEA is HIGH, SJ is MEDIUM
TagsDispatchedWitness ==
    /\ request.op = "extract"
    /\ memories[1] = << TagTrusted \o <<" ", "IKEA">>,
                        TagTrustedMed \o <<" ", "SJ">> >>
    /\ personalization.trusted_high = { <<"ikea">> }
    /\ personalization.trusted_med = { <<"sj">> }
    /\ personalization.trusted_low = {}

\* C28: a merchant tagged in several tiers is scored in the highest of them,
\* HIGH over MEDIUM over LOW, whatever the order of the records: a MED or LOW
\* tag after a HIGH tag does not downgrade it; an untagged merchant is LOW.
HighestTierWins ==
    (request.op = "extract" /\ result.returned) =>
        IF purchase.merchant = <<"IKEA">>
        THEN result.merchant_trust_tier =
               ( IF HasRecord(TagTrustedHigh \o <<" ", "IKEA">>)
                    \/ HasRecord(TagTrusted \o <<" ", "IKEA">>) THEN "HIGH"
                 ELSE IF HasRecord(TagTrustedMed \o <<" ", "Ikea">>) THEN "MEDIUM"
                 ELSE "LOW" )
        ELSE result.merchant_trust_tier = "LOW"

\* IKEA tagged HIGH and then LOW is scored HIGH
HighestTierWinsWitness ==
    /\ request.op = "extract" /\ result.returned
    /\ purchase.merchant = <<"IKEA">>
    /\ memories[1] = << TagTrustedHigh \o <<" ", "IKEA">>,
                        TagTrustedLow \o <<" ", "IKEA">> >>
    /\ personalization.trusted_low = { <<"ikea">> }
    /\ result.merchant_trust_tier = "HIGH"
    /\ result.decision = "APPROVE"

\* C29: score_purchase returns a RiskResult, without raising, for every
\* purchase and every profile the extractor produces, also when the facts of
\* the merchant have a category or a restricted field that is missing, null
\* or of another type; such a field counts as unknown: no category rule
\* fires and the merchant is not taken as restricted.
ScoreNeverRaises ==
    request.op = "extract" =>
        /\ result.returned
        /\ ~result.raised
        /\ dict_get(CallFacts, "category").t # "str"
           => \A i \in 1..Len(result.reasons) :
                 result.reasons[i] \notin
                   { "Grocery purchase (low fraud profile)",
                     "Transit purchase (common while traveling)",
                     "Retail apparel purchase",
                     "Large-ticket retail category",
                     "Restricted category purchase" }
        /\ dict_get(CallFacts, "restricted").t # "bool"
           => result.decision = policy(FALSE, CallGiftCard, CallTier).decision

\* rows of the challenges table with this id
ChallengeRows(c) == { i \in 1..Len(challenges) : challenges[i].challenge_id = c }

\* rows of the payment_attempts table that reference this challenge
Referencing(c) ==
    { j \in 1..Len(payment_attempts) : payment_attempts[j].challenge_id = c }

\* the call r has committed its challenge and not yet its attempt
BetweenWrites(r) == runs[r].pc \in {"challenged", "stopped"}

\* C25: in an authorize call that decides CHALLENGE the challenge row is
\* committed, PENDING, before the attempt row is inserted: the step that
\* writes the challenge writes no attempt, and between the two writes, or
\* after the call stopped there, the row exists and no attempt references
\* it; the insert, when it comes, references that already committed row;
\* and a verify call naming the orphan of a stopped call resolves it.
ChallengeBeforeAttempt ==
    /\ [](\A r \in RunIds :
            BetweenWrites(r) =>
                /\ ChallengeRows(runs[r].challenge_id) # {}
                /\ \A i \in ChallengeRows(runs[r].challenge_id) :
                      /\ challenges[i].session_id = runs[r].session_id
                      /\ challenges[i].resolved_at = 0 =>
                             challenges[i].status = "PENDING"
                /\ Referencing(runs[r].challenge_id) = {})
    /\ [][\A r \in RunIds :
            /\ (runs[r].pc = "scored" /\ runs'[r].pc = "challenged") =>
                   /\ payment_attempts' = payment_attempts
                   /\ Len(challenges') = Len(challenges) + 1
                   /\ challenges'[Len(challenges')].status = "PENDING"
                   /\ challenges'[Len(challenges')].resolved_at = 0
                   /\ challenges'[Len(challenges')].challenge_id =
                          runs'[r].challenge_id
            /\ (runs[r].pc = "challenged" /\ runs'[r].pc = "done") =>
                   /\ challenges' = challenges
                   /\ Len(payment_attempts') = Len(payment_attempts) + 1
                   /\ payment_attempts'[Len(payment_attempts')].challenge_id =
                          runs[r].challenge_id
                   /\ payment_attempts'[Len(payment_attempts')].status =
                          "CHALLENGE_REQUIRED"
            /\ ( /\ runs[r].pc = "stopped"
                 /\ runs' = runs
                 /\ request'.op = "verify"
                 /\ request'.session_id = runs[r].session_id
                 /\ request'.challenge_id = runs[r].challenge_id
                 /\ upper(strip(request'.action)) \in ResolveActions ) =>
                   /\ response'.code = 200
                   /\ \A i \in ChallengeRows(runs[r].challenge_id) :
                         /\ challenges'[i].status = response'.status
                         /\ challenges'[i].status \in {"COMPLETED", "DENIED"}
                         /\ challenges'[i].resolved_at # 0
                   /\ Referencing(runs[r].challenge_id) = {}
         ]_vars

\* a call stopped between its writes, and a later verify call completed the
\* challenge that no attempt references
ChallengeBeforeAttemptWitness ==
    \E r \in RunIds :
        /\ runs[r].pc = "stopped"
        /\ Referencing(runs[r].challenge_id) = {}
        /\ \E i \in ChallengeRows(runs[r].challenge_id) :
              challenges[i].status = "COMPLETED"
        /\ response.op = "verify"
        /\ response.code = 200
        /\ response.challenge_id = runs[r].challenge_id

\* the call r has answered CHALLENGE_REQUIRED
RunChallenged(r) == runs[r].pc = "done" /\ runs[r].code = 200 /\ runs[r].status = "CHALLENGE_REQUIRED"

\* the two calls are for the same session, card and purchase
SameRequest(r1, r2) ==
    /\ runs[r1].session_id = runs[r2].session_id
    /\ runs[r1].card_id = runs[r2].card_id
    /\ runs[r1].purchase = runs[r2].purchase

\* C26: authorize calls are not serialized per card: whatever the position
\* of the other call, a call's next step is enabled, so both calls run to
\* completion; and when two calls for the same session, card and purchase
\* have both answered CHALLENGE_REQUIRED, the tables hold two distinct
\* challenges (PENDING as long as no verify call resolved them) and two
\* attempt rows, each referencing the challenge of its own call.
NoPerCardSerialization ==
    /\ \A r \in RunIds :
          /\ runs[r].pc = "querying" => ENABLED run_retrieve(r, "retrieved")
          /\ runs[r].pc = "scored" => ENABLED run_write(r)
          /\ runs[r].pc = "challenged" => ENABLED run_insert(r)
    /\ \A r1, r2 \in RunIds :
          (r1 # r2 /\ RunChallenged(r1) /\ RunChallenged(r2) /\ SameRequest(r1, r2)) =>
              /\ runs[r1].challenge_id # runs[r2].challenge_id
              /\ Len(challenges) = 2
              /\ Len(payment_attempts) = 2
              /\ \A r \in {r1, r2} :
                    /\ Cardinality(ChallengeRows(runs[r].challenge_id)) = 1
                    /\ \A i \in ChallengeRows(runs[r].challenge_id) :
                          /\ challenges[i].session_id = runs[r].session_id
                          /\ challenges[i].resolved_at = 0 =>
                                 challenges[i].status = "PENDING"
                    /\ Cardinality(Referencing(runs[r].challenge_id)) = 1
                    /\ \A j \in Referencing(runs[r].challenge_id) :
                          /\ payment_attempts[j].session_id = runs[r].session_id
                          /\ payment_attempts[j].card_id = runs[r].card_id
                          /\ payment_attempts[j].status = "CHALLENGE_REQUIRED"

\* two calls for the same purchase interleaved, the second wrote its challenge
\* before the first wrote its attempt, and both challenges are PENDING
NoPerCardSerializationWitness ==
    /\ RunChallenged(1)
    /\ RunChallenged(2)
    /\ SameRequest(1, 2)
    /\ Len(challenges) = 2
    /\ \A i \in 1..2 : challenges[i].status = "PENDING"
    /\ Len(payment_attempts) = 2
    /\ payment_attempts[1].challenge_id = runs[2].challenge_id
    /\ payment_attempts[2].challenge_id = runs[1].challenge_id
    /\ runs[1].challenge_id = 1

\* the record starts with one of the tags extract_personalization dispatches on
RecognisedTag(m) ==
    \E tag \in {TagProfile, TagBaseline, TagTrusted, TagMerchantFacts} :
        startswith(or_empty(m), tag)

\* C27: when the message response carries no memories and the listed store
\* is not longer than top_k, every stored record with a recognised tag is in
\* the sequence query_memories returns, and a merchant whose stored facts
\* say restricted is scored as restricted.
FallbackKeepsTaggedRecords ==
    (request.op = "authorize" /\ backboard = "listed" /\ result # NoResult) =>
        LET store == memories[request.session_id]
            returned == query_memories("listed", store, TopK)
            stored == AuthorizeProfile[store, "retrieved"]
        IN  Len(store) <= TopK =>
                /\ \A i \in 1..Len(store) :
                      RecognisedTag(store[i]) =>
                          \E j \in 1..Len(returned) : returned[j] = strip(store[i])
                /\ restricted_of(facts_get(stored.merchant_facts, CallMerchant))
                       => CallRestricted

\* C30: whatever the interleaving of authorize and verify calls, every row
\* of challenges has status PENDING, COMPLETED or DENIED, its resolved_at is
\* NULL exactly when the status is PENDING, and no step removes a row or
\* changes the challenge_id, session_id or method of a row.
ChallengeRowsWellFormed ==
    /\ [](\A i \in 1..Len(challenges) :
            /\ challenges[i].status \in {"PENDING", "COMPLETED", "DENIED"}
            /\ challenges[i].resolved_at = 0 <=> challenges[i].status = "PENDING")
    /\ [][/\ Len(challenges') >= Len(challenges)
          /\ \A i \in 1..Len(challenges) :
                /\ challenges'[i].challenge_id = challenges[i].challenge_id
                /\ challenges'[i].session_id = challenges[i].session_id
                /\ challenges'[i].method = challenges[i].method
         ]_vars

\* a denied challenge next to the pending challenge of a call still between
\* its two writes
ChallengeRowsWellFormedWitness ==
    /\ Len(challenges) = 2
    /\ \E i, j \in 1..2 :
          /\ challenges[i].status = "DENIED"
          /\ challenges[i].resolved_at # 0
          /\ challenges[j].status = "PENDING"
          /\ challenges[j].resolved_at = 0
          /\ \E r \in RunIds :
                runs[r].pc = "challenged" /\ runs[r].challenge_id = challenges[j].challenge_id

====
